---- MODULE Spec2Model ----
(***************************************************************************)
(* vault-mcp: a local credential broker.  The model covers the audit log   *)
(* (src/src/audit/logger.ts), the encrypted store (src/src/cli.ts, the     *)
(* encrypted-store part), the tool verbs (src/unnamed/part_000..part_003,  *)
(* src/src/tools/vault-add.ts), the browser adapter's sanitizer            *)
(* (src/src/browser/cdp-bridge.ts) and the entry-form gateway              *)
(* (src/unnamed/part_003, the dashboard server part).                      *)
(*                                                                         *)
(* Conventions.  A JavaScript string is a sequence of chunks (TLA+         *)
(* strings): one chunk per character where the characters matter (secrets, *)
(* page text, digits), one opaque chunk for a literal of the program text. *)
(* A JavaScript object is the sequence of its <<key, value>> properties in *)
(* insertion order.  A JSON text is the sequence of its tokens.  SHA-256   *)
(* is collision-free: the digest is the tagged input.                      *)
(***************************************************************************)
EXTENDS Integers, Sequences, FiniteSets, TLC

VARIABLES
    now,            \* the wall clock read by new Date()
    auditFile,      \* audit.jsonl on disk: the sequence of its lines (JSON texts)
    logCalls,       \* per task: the AuditLogger.log call it is running
    tamper,         \* the alteration made to audit.jsonl from outside, if any
    verifyResult,   \* what the last verifyChain call returned
    envKey,         \* process.env.VAULT_MASTER_KEY
    keychain,       \* cachedKey, cachedKeySource and the .master-key files on disk
    nextRandom,     \* the draws made from randomBytes and randomUUID
    credentials,    \* EncryptedStore.credentials, the in-memory vector
    credentialsFile,\* credentials.json on disk: its JSON text
    storeCalls,     \* per task: the store method it is suspended in
    serverInstance, \* the gateway's HTTP server: "null", "starting", "listening"
    pendingCallbacks, \* the tokens an add call is waiting on
    timers,         \* the tokens whose five-minute timer is armed
    notified,       \* history: <<token, siteId>> of each request that found its token pending
    toolCalls,      \* per task: the tool verb or request handler it is running
    ret             \* per task: what the step just taken returned to it

auditVars == <<auditFile, logCalls, tamper, verifyResult>>
storeVars == <<envKey, keychain, nextRandom, credentials, credentialsFile, storeCalls>>
gatewayVars == <<serverInstance, pendingCallbacks, timers, notified>>
vars == <<now, auditFile, logCalls, tamper, verifyResult,
          envKey, keychain, nextRandom, credentials, credentialsFile, storeCalls,
          serverInstance, pendingCallbacks, timers, notified, toolCalls, ret>>

\* ------------------------------------------------------------- bounds
MaxEntries == 2     \* lines appended to audit.jsonl
MaxNow == 1         \* clock ticks
MaxCreds == 2       \* credentials added to the store
MaxCalls == 1       \* vault_login / vault_api_request calls made by the agent
MaxLen == 3         \* characters of a message handed to a sanitizer
MaxDraws == 1       \* random draws after which no new token is issued

\* The async tasks of the process (tool calls, HTTP request handlers).
Tasks == {"t1", "t2"}
SiteIds == {<<"s1">>, <<"s2">>}

\* ------------------------------------------------------------ strings
Undefined == <<"#undefined">>
Null == <<"#null">>

Includes(s, sub) ==
    \E i \in 0..(Len(s) - Len(sub)) : SubSeq(s, i + 1, i + Len(sub)) = sub

\* String.prototype.indexOf: 0-based, -1 when absent.
IndexOf(s, sub) ==
    IF Includes(s, sub)
    THEN CHOOSE i \in 0..(Len(s) - Len(sub)) :
            /\ SubSeq(s, i + 1, i + Len(sub)) = sub
            /\ \A j \in 0..(i - 1) : SubSeq(s, j + 1, j + Len(sub)) # sub
    ELSE -1

DigitChars == <<"0", "1", "2", "3", "4", "5", "6", "7", "8", "9">>

RECURSIVE NumberToString(_)
NumberToString(n) ==
    IF n < 10 THEN <<DigitChars[n + 1]>>
    ELSE NumberToString(n \div 10) \o <<DigitChars[(n % 10) + 1]>>

PadStart(s, len, c) ==
    IF Len(s) >= len THEN s ELSE [i \in 1..(len - Len(s)) |-> c] \o s

ToISOString(t) == <<"T">> \o NumberToString(t)

\* ------------------------------------------------------------- objects
HasKey(obj, key) == \E i \in 1..Len(obj) : obj[i][1] = key

Get(obj, key) ==
    IF HasKey(obj, key)
    THEN obj[CHOOSE i \in 1..Len(obj) :
                /\ obj[i][1] = key
                /\ \A j \in (i + 1)..Len(obj) : obj[j][1] # key][2]
    ELSE Undefined

\* obj[key] = value: in place when the key exists, appended otherwise.
Put(obj, key, value) ==
    IF HasKey(obj, key)
    THEN [i \in 1..Len(obj) |-> IF obj[i][1] = key THEN <<key, value>> ELSE obj[i]]
    ELSE Append(obj, <<key, value>>)

\* const { key: _, ...rest } = obj
Without(obj, key) == SelectSeq(obj, LAMBDA p : p[1] # key)

\* JSON.stringify of an object of strings: the key and value tokens in
\* property order; a property whose value is undefined is left out.
RECURSIVE JSONStringify(_)
JSONStringify(obj) ==
    IF obj = <<>> THEN <<>>
    ELSE (IF obj[1][2] = Undefined THEN <<>> ELSE <<(<<obj[1][1]>>), obj[1][2]>>)
         \o JSONStringify(Tail(obj))

\* JSON.parse of such a text: a repeated key keeps its first place and its
\* last value.
RECURSIVE JSONParseFrom(_, _)
JSONParseFrom(obj, text) ==
    IF Len(text) < 2 THEN obj
    ELSE JSONParseFrom(Put(obj, text[1][1], text[2]), Tail(Tail(text)))

JSONParse(text) == JSONParseFrom(<<>>, text)

\* --------------------------------------------------------------- audit
Genesis == <<"genesis">>

\* The text a digest is taken of, flattened to one string.
RECURSIVE FlatText(_)
FlatText(text) ==
    IF text = <<>> THEN <<>> ELSE text[1] \o <<",">> \o FlatText(Tail(text))

Sha256Hex(data) == <<"sha256(">> \o data \o <<")">>

computeHash(prevHash, entry) == Sha256Hex(prevHash \o FlatText(JSONStringify(entry)))

formatEventId(n) == <<"evt_">> \o PadStart(NumberToString(n), 3, "0")

\* getEntries(): every line of the file, parsed.
getEntries(file) == [i \in 1..Len(file) |-> JSONParse(file[i])]

\* Mutant: the site id is not looked at.
getEntriesUnfiltered(file, siteId) == getEntries(file)

\* getEntries(siteId): those of one credential, in file order.
getEntriesOf(file, siteId) ==
    SelectSeq(getEntries(file), LAMBDA e : Get(e, "credentialId") = siteId)

\* The arguments of the log calls the program makes: action, result, botId
\* and details as the call sites pass them.
LogShapes ==
    { [action |-> <<"credential.created">>, result |-> <<"success">>,
       botId |-> Undefined, details |-> Undefined],
      [action |-> <<"credential.created">>, result |-> <<"success">>,
       botId |-> Undefined, details |-> <<"via dashboard">>],
      [action |-> <<"credential.used">>, result |-> <<"success">>,
       botId |-> <<"claude">>, details |-> Undefined],
      [action |-> <<"credential.used">>, result |-> <<"failure">>,
       botId |-> <<"claude">>, details |-> <<"Credential not found">>] }

LogArgs ==
    { [action |-> s.action, credentialId |-> c, result |-> s.result,
       botId |-> s.botId, details |-> s.details] : s \in LogShapes, c \in SiteIds }

\* log(), from the resolution of getEntries to the call of appendFile.
LogOptional(partial, args) ==
    LET withBot == IF args.botId # Undefined
                   THEN Put(partial, "botId", args.botId) ELSE partial
    IN  IF args.details # Undefined
        THEN Put(withBot, "details", args.details) ELSE withBot

\* Mutant: the tail is taken only when the log holds more than one entry.
LogPrevHashOffByOne(entries) ==
    IF Len(entries) > 1 THEN Get(entries[Len(entries)], "hash") ELSE Genesis

LogPrevHash(entries) ==
    IF Len(entries) > 0 THEN Get(entries[Len(entries)], "hash") ELSE Genesis

\* Mutant: the digest is taken before botId and details are set.
LogEntryHashedEarly(entries, args, time) ==
    LET prevHash == LogPrevHash(entries)
        eventId == formatEventId(Len(entries) + 1)
        partial == << <<"eventId", eventId>>,
                      <<"timestamp", ToISOString(time)>>,
                      <<"action", args.action>>,
                      <<"credentialId", args.credentialId>>,
                      <<"result", args.result>>,
                      <<"prevHash", prevHash>> >>
        hash == computeHash(prevHash, partial)
    IN  Put(LogOptional(partial, args), "hash", hash)

LogEntry(entries, args, time) ==
    LET prevHash == LogPrevHash(entries)
        eventId == formatEventId(Len(entries) + 1)
        partial == LogOptional(
                      << <<"eventId", eventId>>,
                         <<"timestamp", ToISOString(time)>>,
                         <<"action", args.action>>,
                         <<"credentialId", args.credentialId>>,
                         <<"result", args.result>>,
                         <<"prevHash", prevHash>> >>, args)
        hash == computeHash(prevHash, partial)
    IN  Put(partial, "hash", hash)

\* verifyChain over the parsed entries: the 0-based index of the first entry
\* that fails either comparison, -1 when none does.
\* Mutant: only the link to the previous entry is compared.
VerifyEntryLinkOnly(entries, i) ==
    Get(entries[i], "prevHash") = (IF i = 1 THEN Genesis ELSE Get(entries[i - 1], "hash"))

VerifyEntryOk(entries, i) ==
    LET entry == entries[i]
        expectedPrevHash == IF i = 1 THEN Genesis ELSE Get(entries[i - 1], "hash")
        rest == Without(entry, "hash")
        expectedHash == computeHash(Get(entry, "prevHash"), rest)
    IN  /\ Get(entry, "prevHash") = expectedPrevHash
        /\ Get(entry, "hash") = expectedHash

verifyChain(file) ==
    LET entries == getEntries(file)
        bad == {i \in 1..Len(entries) : ~VerifyEntryOk(entries, i)}
    IN  IF bad = {}
        THEN [called |-> TRUE, valid |-> TRUE, brokenAt |-> -1,
              totalEntries |-> Len(entries)]
        ELSE [called |-> TRUE, valid |-> FALSE,
              brokenAt |-> (CHOOSE i \in bad : \A j \in bad : i <= j) - 1,
              totalEntries |-> Len(entries)]

NotVerified == [called |-> FALSE, valid |-> FALSE, brokenAt |-> -1, totalEntries |-> 0]

IdleLog == [pc |-> "idle", args |-> <<>>, entry |-> <<>>]

AuditInit ==
    /\ auditFile = <<>>
    /\ logCalls = [t \in Tasks |-> IdleLog]
    /\ tamper = [kind |-> "none", idx |-> -1]
    /\ verifyResult = NotVerified

\* A task calls log(): it suspends in getEntries on readFile.
LogCall(t, args) ==
    /\ logCalls[t].pc = "idle"
    /\ tamper.kind = "none"
    /\ Len(auditFile) + Cardinality({u \in Tasks : logCalls[u].pc # "idle"}) < MaxEntries
    /\ logCalls' = [logCalls EXCEPT ![t] = [pc |-> "reading", args |-> args, entry |-> <<>>]]
    /\ UNCHANGED <<auditFile, tamper, verifyResult>>

\* readFile resolves: the entry is built from the file as it is now, and the
\* task suspends on appendFile.
LogRead(t) ==
    /\ logCalls[t].pc = "reading"
    /\ logCalls' = [logCalls EXCEPT ![t] =
            [pc |-> "appending", args |-> @.args,
             entry |-> LogEntry(getEntries(auditFile), @.args, now)]]
    /\ UNCHANGED <<auditFile, tamper, verifyResult>>

\* Mutant: log() returns without the line on disk.
LogAppendLost(t) ==
    /\ logCalls[t].pc = "appending"
    /\ auditFile' = auditFile
    /\ logCalls' = [logCalls EXCEPT ![t] = IdleLog]
    /\ verifyResult' = NotVerified
    /\ UNCHANGED tamper

\* appendFile resolves: the line is on disk and log() returns.
LogAppend(t) ==
    /\ logCalls[t].pc = "appending"
    /\ auditFile' = Append(auditFile, JSONStringify(logCalls[t].entry))
    /\ logCalls' = [logCalls EXCEPT ![t] = IdleLog]
    /\ verifyResult' = NotVerified
    /\ UNCHANGED tamper

\* The same call made only while no other log call is in flight.
LogCallAlone(t, args) ==
    /\ \A u \in Tasks : logCalls[u].pc = "idle"
    /\ LogCall(t, args)

VerifyChainCall ==
    /\ verifyResult' = verifyChain(auditFile)
    /\ verifyResult' # verifyResult
    /\ UNCHANGED <<auditFile, logCalls, tamper>>

Tick ==
    /\ now < MaxNow
    /\ now' = now + 1

\* --------------------------------------------------------------- store
KEY_LENGTH == 32
IV_LENGTH == 16

\* getMasterKey with VAULT_MASTER_KEY set: scryptSync of the variable.
ScryptSync(password, keylen) == <<"scrypt(">> \o password \o <<")", DigitChars[(keylen \div 10) + 1], DigitChars[(keylen % 10) + 1]>>

getMasterKey(env) == ScryptSync(env, KEY_LENGTH)

\* Mutant: every draw gives the same bytes.
RandomBytesSame(n, len) == <<"random">> \o NumberToString(0) \o <<"/">> \o NumberToString(len)

\* randomBytes / randomUUID: the n-th draw; no two draws are equal.
RandomBytes(n, len) == <<"random">> \o NumberToString(n) \o <<"/">> \o NumberToString(len)
RandomUUID(n) == <<"uuid-">> \o NumberToString(n)

\* A secret payload (PlainCredentialData) is a record of the properties set.
\* JSON.stringify of it: the properties in a fixed order, undefined ones left
\* out; JSON.parse rebuilds the record.
DataKeys == <<"email", "password", "apiKey", "headers">>

JSONStringifyData(data) ==
    SelectSeq([i \in 1..Len(DataKeys) |->
                  IF DataKeys[i] \in DOMAIN data
                  THEN <<DataKeys[i], data[DataKeys[i]]>> ELSE <<DataKeys[i]>>],
              LAMBDA p : Len(p) = 2 /\ (p[1] = "headers" \/ p[2] # Undefined))

JSONParseData(text) ==
    [k \in {text[i][1] : i \in 1..Len(text)} |->
        text[CHOOSE i \in 1..Len(text) : text[i][1] = k][2]]

\* data.key, undefined when the property is not set.
Field(data, key) == IF key \in DOMAIN data THEN data[key] ELSE Undefined

\* AES-256-GCM: the blob is base64(iv + ciphertext + authTag); it opens only
\* under the key it was sealed with.
encrypt(data, key, iv) == [iv |-> iv, key |-> key, plaintext |-> JSONStringifyData(data)]

\* Mutant: the tag is not checked.
DecryptFailsNever(encoded, key) == FALSE

DecryptFails(encoded, key) == encoded.key # key

decrypt(encoded, key) == JSONParseData(encoded.plaintext)

\* Mutant: the ciphertext is blanked, not removed.
toMetadataBlanked(stored) == [stored EXCEPT !.encryptedData = <<>>]

toMetadata(stored) == [k \in DOMAIN stored \ {"encryptedData"} |-> stored[k]]

\* credentials.find(c => c.siteId === siteId): its 1-based position, 0 if none.
FindIndex(creds, siteId) ==
    IF \E i \in 1..Len(creds) : creds[i].siteId = siteId
    THEN CHOOSE i \in 1..Len(creds) :
            /\ creds[i].siteId = siteId
            /\ \A j \in 1..(i - 1) : creds[j].siteId # siteId
    ELSE 0

\* JSON.stringify(this.credentials, null, 2): undefined loginUrl and selectors
\* are left out of the text.
StoredKeys == {"id", "siteId", "serviceType", "loginUrl", "selectors", "active",
               "createdAt", "updatedAt", "encryptedData"}

JSONStringifyStored(stored) ==
    [k \in {f \in DOMAIN stored :
                ~(f \in {"loginUrl", "selectors"} /\ stored[f] = Undefined)} |-> stored[k]]

JSONStringifyCredentials(creds) == [i \in 1..Len(creds) |-> JSONStringifyStored(creds[i])]

listCredentials(creds) == [i \in 1..Len(creds) |-> toMetadata(creds[i])]

\* getCredential: null, a decryption error, or {metadata, data}.
getCredential(creds, siteId, key) ==
    LET idx == FindIndex(creds, siteId)
    IN  IF idx = 0 THEN [kind |-> "null"]
        ELSE IF DecryptFails(creds[idx].encryptedData, key) THEN [kind |-> "throws"]
        ELSE [kind |-> "found", metadata |-> toMetadata(creds[idx]),
              data |-> decrypt(creds[idx].encryptedData, key)]

IdleStore == [pc |-> "idle"]
NoRet == [op |-> "none"]

StoreInit ==
    /\ nextRandom = 0
    /\ keychain = [cachedKey |-> Null, cachedKeySource |-> Null, keyFiles |-> {}]
    /\ credentials = <<>>
    /\ credentialsFile = JSONStringifyCredentials(<<>>)
    /\ storeCalls = [t \in Tasks |-> IdleStore]

\* addCredential up to its suspension in save(): with the key taken from the
\* environment, encrypt() does no I/O, so the record is built, sealed and
\* pushed, and the text to write is taken, before any other task runs.
NewStored(n, siteId, serviceType, plainData, loginUrl, selectors, time, env) ==
    [id |-> RandomUUID(n),
     siteId |-> siteId,
     serviceType |-> serviceType,
     loginUrl |-> loginUrl,
     selectors |-> selectors,
     active |-> TRUE,
     createdAt |-> ToISOString(time),
     updatedAt |-> ToISOString(time),
     encryptedData |-> encrypt(plainData, getMasterKey(env), RandomBytes(n + 1, IV_LENGTH))]

AddCredential(t, siteId, serviceType, plainData, loginUrl, selectors) ==
    /\ storeCalls[t].pc = "idle"
    /\ Len(credentials) < MaxCreds
    /\ LET stored == NewStored(nextRandom, siteId, serviceType, plainData, loginUrl,
                               selectors, now, envKey)
       IN  /\ credentials' = Append(credentials, stored)
           /\ storeCalls' = [storeCalls EXCEPT ![t] =
                    [pc |-> "saving", op |-> "add",
                     content |-> JSONStringifyCredentials(Append(credentials, stored)),
                     result |-> toMetadata(stored)]]
    /\ nextRandom' = nextRandom + 2
    /\ UNCHANGED <<envKey, keychain, credentialsFile>>

\* Mutant: the last credential is dropped, whatever its site.
RemoveCredentialLast(t, siteId) ==
    /\ storeCalls[t].pc = "idle"
    /\ FindIndex(credentials, siteId) # 0
    /\ LET left == SubSeq(credentials, 1, Len(credentials) - 1)
       IN  /\ credentials' = left
           /\ storeCalls' = [storeCalls EXCEPT ![t] =
                    [pc |-> "saving", op |-> "remove",
                     content |-> JSONStringifyCredentials(left), result |-> TRUE]]
    /\ UNCHANGED <<envKey, keychain, nextRandom, credentialsFile>>

\* removeCredential on a site that is present, up to its suspension in save().
RemoveCredential(t, siteId) ==
    /\ storeCalls[t].pc = "idle"
    /\ FindIndex(credentials, siteId) # 0
    /\ LET idx == FindIndex(credentials, siteId)
           left == SubSeq(credentials, 1, idx - 1)
                       \o SubSeq(credentials, idx + 1, Len(credentials))
       IN  /\ credentials' = left
           /\ storeCalls' = [storeCalls EXCEPT ![t] =
                    [pc |-> "saving", op |-> "remove",
                     content |-> JSONStringifyCredentials(left), result |-> TRUE]]
    /\ UNCHANGED <<envKey, keychain, nextRandom, credentialsFile>>

\* Mutant: every credential is switched, not the one found.
ToggleActiveAll(t, siteId, active) ==
    /\ storeCalls[t].pc = "idle"
    /\ FindIndex(credentials, siteId) # 0
    /\ LET updated == [i \in 1..Len(credentials) |->
                          [credentials[i] EXCEPT !.active = active,
                                                 !.updatedAt = ToISOString(now)]]
       IN  /\ credentials' = updated
           /\ storeCalls' = [storeCalls EXCEPT ![t] =
                    [pc |-> "saving", op |-> "toggle",
                     content |-> JSONStringifyCredentials(updated), result |-> TRUE]]
    /\ UNCHANGED <<envKey, keychain, nextRandom, credentialsFile>>

\* toggleActive on a site that is present, up to its suspension in save().
ToggleActive(t, siteId, active) ==
    /\ storeCalls[t].pc = "idle"
    /\ FindIndex(credentials, siteId) # 0
    /\ LET idx == FindIndex(credentials, siteId)
           updated == [credentials EXCEPT ![idx] =
                          [@ EXCEPT !.active = active, !.updatedAt = ToISOString(now)]]
       IN  /\ credentials' = updated
           /\ storeCalls' = [storeCalls EXCEPT ![t] =
                    [pc |-> "saving", op |-> "toggle",
                     content |-> JSONStringifyCredentials(updated), result |-> TRUE]]
    /\ UNCHANGED <<envKey, keychain, nextRandom, credentialsFile>>

\* Mutant: save() returns without the text on disk.
SaveLost(t) ==
    /\ storeCalls[t].pc = "saving"
    /\ credentialsFile' = credentialsFile
    /\ storeCalls' = [storeCalls EXCEPT ![t] = IdleStore]
    /\ UNCHANGED <<envKey, keychain, nextRandom, credentials>>

\* writeFile resolves: the text taken when save() was called is on disk, and
\* the method returns.
SaveDone(t) ==
    /\ storeCalls[t].pc = "saving"
    /\ credentialsFile' = storeCalls[t].content
    /\ storeCalls' = [storeCalls EXCEPT ![t] = IdleStore]
    /\ UNCHANGED <<envKey, keychain, nextRandom, credentials>>

\* --------------------------------------------------- calls in progress
NoCall == [op |-> "none", pc |-> "none"]

\* Every call that writes to the audit log writes one entry: a call may start
\* only while the log has room for the entries of the calls in progress.
LogRoom ==
    Len(auditFile)
        + Cardinality({u \in Tasks : toolCalls[u].op \in
                          {"post", "patch", "delete", "vault_login", "vault_api_request"}})
        < MaxEntries

\* Mutant: every entry is recorded as a success.
LogArgSuccess(action, credentialId, result, botId, details) ==
    [action |-> action, credentialId |-> credentialId, result |-> <<"success">>,
     botId |-> botId, details |-> details]

LogArg(action, credentialId, result, botId, details) ==
    [action |-> action, credentialId |-> credentialId, result |-> result,
     botId |-> botId, details |-> details]

\* ret holds what the step just taken returned, to the task it returned to.
NoResponse == ret' = [u \in Tasks |-> NoRet]

Respond(t, op, value) ==
    ret' = [u \in Tasks |-> IF u = t THEN [op |-> op, value |-> value] ELSE NoRet]

RespondHttp(t, op, status, value) ==
    ret' = [u \in Tasks |->
               IF u = t THEN [op |-> op, status |-> status, value |-> value] ELSE NoRet]

\* ------------------------------------------------- vault_list, vault_status
\* Mutant: the list is built from the opened payloads.
vaultListOpened(creds) ==
    [credentials |->
        [i \in 1..Len(creds) |->
            [siteId |-> creds[i].siteId,
             serviceType |-> creds[i].serviceType,
             active |-> creds[i].active,
             data |-> creds[i].encryptedData.plaintext]]]

vaultList(creds) ==
    [credentials |->
        [i \in 1..Len(creds) |->
            [siteId |-> listCredentials(creds)[i].siteId,
             serviceType |-> listCredentials(creds)[i].serviceType,
             active |-> listCredentials(creds)[i].active]]]

VaultListCall(t) ==
    /\ toolCalls[t].op = "none"
    /\ Respond(t, "vault_list", vaultList(credentials))
    /\ UNCHANGED <<toolCalls, storeVars, auditVars, gatewayVars>>

\* vaultStatus up to its suspension in audit.getEntries(siteId).
VaultStatusCall(t, siteId) ==
    /\ toolCalls[t].op = "none"
    /\ LET idx == FindIndex(credentials, siteId)
       IN  IF idx = 0
           THEN /\ Respond(t, "vault_status",
                           [error |-> <<"Credential not found: ">> \o siteId])
                /\ UNCHANGED toolCalls
           ELSE /\ toolCalls' = [toolCalls EXCEPT ![t] =
                        [op |-> "vault_status", pc |-> "entries", siteId |-> siteId,
                         cred |-> listCredentials(credentials)[idx]]]
                /\ NoResponse
    /\ UNCHANGED <<storeVars, auditVars, gatewayVars>>

vaultStatusResult(cred, entries) ==
    [siteId |-> cred.siteId,
     serviceType |-> cred.serviceType,
     active |-> cred.active,
     createdAt |-> cred.createdAt,
     updatedAt |-> cred.updatedAt,
     auditCount |-> Len(entries),
     lastUsed |-> IF Len(entries) > 0
                  THEN << <<"timestamp", Get(entries[Len(entries)], "timestamp")>>,
                          <<"action", Get(entries[Len(entries)], "action")>>,
                          <<"result", Get(entries[Len(entries)], "result")>> >>
                  ELSE Null]

\* readFile resolves: the entries of the site, and the result.
VaultStatusReturn(t) ==
    /\ toolCalls[t].op = "vault_status" /\ toolCalls[t].pc = "entries"
    /\ Respond(t, "vault_status",
               vaultStatusResult(toolCalls[t].cred,
                                 getEntriesOf(auditFile, toolCalls[t].siteId)))
    /\ toolCalls' = [toolCalls EXCEPT ![t] = NoCall]
    /\ UNCHANGED <<storeVars, auditVars, gatewayVars>>

\* -------------------------------------------- the store read by a caller
GetCredentialCall(t, siteId) ==
    /\ toolCalls[t].op = "none"
    /\ Respond(t, "get", getCredential(credentials, siteId, getMasterKey(envKey)))
    /\ UNCHANGED <<toolCalls, storeVars, auditVars, gatewayVars>>

\* ------------------------------------------------ vault_add and its token
GatewayInit ==
    /\ serverInstance = "null"
    /\ pendingCallbacks = {}
    /\ timers = {}
    /\ notified = {}

Timeout == <<"__timeout__">>

\* The arguments an agent passes to vault_add: none, or a site and its type.
AddArgs == { [siteId |-> Undefined, serviceType |-> Undefined],
             [siteId |-> <<"s1">>, serviceType |-> <<"web_login">>] }

\* The URL handed to the browser.
AddUrl(token, siteId, serviceType) ==
    <<"http://localhost:9900/add?token=">> \o token
        \o (IF siteId # Undefined THEN <<"&site=">> \o siteId ELSE <<>>)
        \o (IF serviceType # Undefined THEN <<"&type=">> \o serviceType ELSE <<>>)

\* Mutant: the timer is armed but the resolver is not kept.
WaitingUnregistered(t, token, args) ==
    /\ pendingCallbacks' = pendingCallbacks
    /\ timers' = timers \cup {token}
    /\ toolCalls' = [toolCalls EXCEPT ![t] =
            [op |-> "vault_add", pc |-> "waiting", token |-> token,
             url |-> AddUrl(token, args.siteId, args.serviceType)]]

\* Mutant: the resolver is kept but no timer is armed.
WaitingNoTimer(t, token, args) ==
    /\ pendingCallbacks' = pendingCallbacks \cup {token}
    /\ timers' = timers
    /\ toolCalls' = [toolCalls EXCEPT ![t] =
            [op |-> "vault_add", pc |-> "waiting", token |-> token,
             url |-> AddUrl(token, args.siteId, args.serviceType)]]

\* onCredentialAdded(token): the resolver is kept under the token and the
\* timer is armed; the call waits.
Waiting(t, token, args) ==
    /\ pendingCallbacks' = pendingCallbacks \cup {token}
    /\ timers' = timers \cup {token}
    /\ toolCalls' = [toolCalls EXCEPT ![t] =
            [op |-> "vault_add", pc |-> "waiting", token |-> token,
             url |-> AddUrl(token, args.siteId, args.serviceType)]]

\* vaultAdd up to its first suspension: in listen() when it creates the
\* server, in onCredentialAdded when a server exists already.
VaultAddCall(t, args) ==
    /\ toolCalls[t].op = "none"
    /\ nextRandom < MaxDraws
    /\ nextRandom' = nextRandom + 1
    /\ NoResponse
    /\ IF serverInstance = "null"
       THEN /\ serverInstance' = "starting"
            /\ toolCalls' = [toolCalls EXCEPT ![t] =
                    [op |-> "vault_add", pc |-> "starting",
                     token |-> RandomUUID(nextRandom), args |-> args]]
            /\ UNCHANGED <<pendingCallbacks, timers>>
       ELSE /\ Waiting(t, RandomUUID(nextRandom), args)
            /\ UNCHANGED serverInstance
    /\ UNCHANGED <<envKey, keychain, credentials, credentialsFile, storeCalls, notified, auditVars>>

\* The listen callback runs: the server accepts requests and the call goes on.
VaultAddListening(t) ==
    /\ toolCalls[t].op = "vault_add" /\ toolCalls[t].pc = "starting"
    /\ serverInstance' = "listening"
    /\ Waiting(t, toolCalls[t].token, toolCalls[t].args)
    /\ NoResponse
    /\ UNCHANGED <<storeVars, auditVars, notified>>

\* What vaultAdd returns for the value its promise resolved with.
vaultAddOutcome(result) ==
    IF result = Timeout
    THEN [status |-> <<"timeout">>,
          message |-> <<"Credential form was not submitted within 5 minutes. Try again with vault_add.">>]
    ELSE [status |-> <<"success">>, site_id |-> result,
          message |-> <<"Credential \"">> \o result \o <<"\" has been securely added to the vault. You can now use vault_login or vault_api_request with it.">>]

\* Mutant: the entry stays in the map.
MapDeleteNothing(map, token) == map

\* pendingCallbacks.delete(token)
MapDelete(map, token) == map \ {token}

\* The timer of a token fires: a call still waiting on it times out.
VaultAddTimeout(token) ==
    /\ token \in timers
    /\ timers' = timers \ {token}
    /\ pendingCallbacks' = IF token \in pendingCallbacks
                            THEN MapDelete(pendingCallbacks, token) ELSE pendingCallbacks
    /\ IF token \in pendingCallbacks
       THEN \E t \in Tasks :
               /\ toolCalls[t].op = "vault_add" /\ toolCalls[t].pc = "waiting"
               /\ toolCalls[t].token = token
               /\ ret' = [u \in Tasks |->
                       IF u = t
                       THEN [op |-> "vault_add", token |-> token,
                             value |-> vaultAddOutcome(Timeout)]
                       ELSE NoRet]
               /\ toolCalls' = [toolCalls EXCEPT ![t] = NoCall]
       ELSE NoResponse /\ UNCHANGED toolCalls
    /\ UNCHANGED <<storeVars, auditVars, serverInstance, notified>>

\* ------------------------------------------- the gateway's request handlers
Selectors == << <<"email", <<"#email">> >>, <<"password", <<"#password">> >>,
                <<"submit", <<"#submit">> >> >>

Passwords == {<<"p">>, <<"q">>}
ApiKeys == {<<"k">>}

Body(siteId, serviceType, email, password, apiKey, loginUrl, selectors, token) ==
    [siteId |-> siteId, serviceType |-> serviceType, email |-> email,
     password |-> password, apiKey |-> apiKey, loginUrl |-> loginUrl,
     selectors |-> selectors, headerName |-> Undefined, headerPrefix |-> Undefined,
     token |-> token]

\* The tokens a submitted form can carry: none, or one handed to a browser
\* in a URL (its timer is armed from then on), resolved since or not.
FormTokens == {Undefined} \cup timers

\* The bodies posted to /api/credentials: a web login on the first site, an
\* API key on the second, each with either secret; and, from a client other
\* than the dashboard's form, an API key sent with a login URL and selectors
\* and a body whose serviceType is neither of the two.
PostBodies ==
    {Body(<<"s1">>, <<"web_login">>, <<"e">>, pw, Undefined,
          <<"https://s1/login">>, Selectors, tk) : pw \in Passwords, tk \in FormTokens}
    \cup {Body(<<"s2">>, <<"api_key">>, Undefined, Undefined, k,
               Undefined, Undefined, tk) : k \in ApiKeys, tk \in FormTokens}
    \cup {Body(<<"s2">>, <<"api_key">>, Undefined, Undefined, k,
               <<"https://s2/login">>, Selectors, Undefined) : k \in ApiKeys}
    \cup {Body(<<"s1">>, <<"oauth">>, <<"e">>, <<"p">>, Undefined,
               Undefined, Undefined, Undefined)}

\* A JS value read as a condition.
Truthy(v) == v # Undefined /\ v # <<>>
OrElse(v, default) == IF Truthy(v) THEN v ELSE default

PostPlainData(body) ==
    IF body.serviceType = <<"api_key">>
    THEN [apiKey |-> body.apiKey,
          headers |-> << <<OrElse(body.headerName, <<"Authorization">>),
                          OrElse(body.headerPrefix, <<"Bearer ">>) \o body.apiKey>> >>]
    ELSE [email |-> body.email, password |-> body.password]

PostSelectors(body) ==
    IF body.serviceType = <<"api_key">> THEN Undefined ELSE body.selectors

\* POST /api/credentials arrives; the handler suspends in parseBody.
PostArrive(t, body) ==
    /\ serverInstance = "listening"
    /\ toolCalls[t].op = "none"
    /\ LogRoom
    /\ Len(credentials)
         + Cardinality({u \in Tasks : toolCalls[u].op = "post" /\ toolCalls[u].pc = "body"})
         < MaxCreds
    /\ toolCalls' = [toolCalls EXCEPT ![t] = [op |-> "post", pc |-> "body", body |-> body]]
    /\ NoResponse
    /\ UNCHANGED <<storeVars, auditVars, gatewayVars>>

\* The body is read and parsed; the handler suspends in addCredential.
PostBody(t) ==
    /\ toolCalls[t].op = "post" /\ toolCalls[t].pc = "body"
    /\ LET body == toolCalls[t].body
       IN  AddCredential(t, body.siteId, body.serviceType, PostPlainData(body),
                         body.loginUrl, PostSelectors(body))
    /\ toolCalls' = [toolCalls EXCEPT ![t].pc = "adding"]
    /\ NoResponse
    /\ UNCHANGED <<auditVars, gatewayVars>>

\* addCredential returns the metadata; the handler suspends in audit.log.
PostAdded(t) ==
    /\ toolCalls[t].op = "post" /\ toolCalls[t].pc = "adding"
    /\ toolCalls' = [toolCalls EXCEPT ![t] =
            [op |-> "post", pc |-> "logging", body |-> @.body,
             meta |-> storeCalls[t].result]]
    /\ SaveDone(t)
    /\ LogCall(t, LogArg(<<"credential.created">>, toolCalls[t].body.siteId,
                         <<"success">>, Undefined, <<"via dashboard">>))
    /\ NoResponse
    /\ UNCHANGED gatewayVars

\* Mutant: the waiting call is handed the password.
NotifyValuePassword(body) == body.password

\* cb(siteId): what the waiting call is resolved with.
NotifyValue(body) == body.siteId

\* audit.log returns: a call waiting on the token is resolved with the site
\* id and returns its outcome; the metadata is the 201 response.
PostLogged(t) ==
    /\ toolCalls[t].op = "post" /\ toolCalls[t].pc = "logging"
    /\ LogAppend(t)
    /\ LET body == toolCalls[t].body
           hit == Truthy(body.token) /\ body.token \in pendingCallbacks
           waiter == {u \in Tasks : /\ toolCalls[u].op = "vault_add"
                                     /\ toolCalls[u].pc = "waiting"
                                     /\ toolCalls[u].token = body.token}
       IN  /\ pendingCallbacks' = IF hit THEN MapDelete(pendingCallbacks, body.token)
                                         ELSE pendingCallbacks
           /\ notified' = IF hit THEN notified \cup {<<body.token, body.siteId>>}
                                 ELSE notified
           /\ toolCalls' = [u \in Tasks |->
                   IF u = t \/ (hit /\ u \in waiter) THEN NoCall ELSE toolCalls[u]]
           /\ ret' = [u \in Tasks |->
                   IF u = t
                   THEN [op |-> "add", status |-> 201, value |-> toolCalls[t].meta]
                   ELSE IF hit /\ u \in waiter
                   THEN [op |-> "vault_add", token |-> body.token,
                         value |-> vaultAddOutcome(NotifyValue(body))]
                   ELSE NoRet]
    /\ UNCHANGED <<storeVars, serverInstance, timers>>

\* PATCH /api/credentials/<siteId> arrives; the handler suspends in parseBody.
\* active is the parsed property: true, false, or not a boolean.
PatchArrive(t, siteId, active) ==
    /\ serverInstance = "listening"
    /\ toolCalls[t].op = "none"
    /\ LogRoom
    /\ toolCalls' = [toolCalls EXCEPT ![t] =
            [op |-> "patch", pc |-> "body", siteId |-> siteId, active |-> active]]
    /\ NoResponse
    /\ UNCHANGED <<storeVars, auditVars, gatewayVars>>

\* The body is read: 400 for a non-boolean, 404 for an unknown site, and
\* otherwise the handler suspends in toggleActive.
PatchBody(t) ==
    /\ toolCalls[t].op = "patch" /\ toolCalls[t].pc = "body"
    /\ LET siteId == toolCalls[t].siteId
           active == toolCalls[t].active
       IN  IF active = Undefined
           THEN /\ RespondHttp(t, "patch", 400, [error |-> <<"Invalid request">>])
                /\ toolCalls' = [toolCalls EXCEPT ![t] = NoCall]
                /\ UNCHANGED storeVars
           ELSE IF FindIndex(credentials, siteId) = 0
           THEN /\ RespondHttp(t, "patch", 404, [error |-> <<"Not found">>])
                /\ toolCalls' = [toolCalls EXCEPT ![t] = NoCall]
                /\ UNCHANGED storeVars
           ELSE /\ ToggleActive(t, siteId, active = <<"true">>)
                /\ toolCalls' = [toolCalls EXCEPT ![t].pc = "toggling"]
                /\ NoResponse
    /\ UNCHANGED <<auditVars, gatewayVars>>

\* toggleActive returns true; the handler suspends in audit.log.
PatchToggled(t) ==
    /\ toolCalls[t].op = "patch" /\ toolCalls[t].pc = "toggling"
    /\ toolCalls' = [toolCalls EXCEPT ![t].pc = "logging"]
    /\ SaveDone(t)
    /\ LogCall(t, LogArg(<<"credential.toggled">>, toolCalls[t].siteId, <<"success">>,
                         Undefined, <<"active=">> \o toolCalls[t].active))
    /\ NoResponse
    /\ UNCHANGED gatewayVars

PatchLogged(t) ==
    /\ toolCalls[t].op = "patch" /\ toolCalls[t].pc = "logging"
    /\ LogAppend(t)
    /\ RespondHttp(t, "patch", 200, [ok |-> TRUE])
    /\ toolCalls' = [toolCalls EXCEPT ![t] = NoCall]
    /\ UNCHANGED <<storeVars, gatewayVars>>

\* DELETE /api/credentials/<siteId> arrives: 404 for an unknown site, and
\* otherwise the handler suspends in removeCredential.
DeleteArrive(t, siteId) ==
    /\ serverInstance = "listening"
    /\ toolCalls[t].op = "none"
    /\ LogRoom
    /\ IF FindIndex(credentials, siteId) = 0
       THEN /\ RespondHttp(t, "delete", 404, [error |-> <<"Not found">>])
            /\ UNCHANGED <<storeVars, toolCalls>>
       ELSE /\ RemoveCredential(t, siteId)
            /\ toolCalls' = [toolCalls EXCEPT ![t] =
                    [op |-> "delete", pc |-> "removing", siteId |-> siteId]]
            /\ NoResponse
    /\ UNCHANGED <<auditVars, gatewayVars>>

\* removeCredential returns true; the handler suspends in audit.log.
DeleteRemoved(t) ==
    /\ toolCalls[t].op = "delete" /\ toolCalls[t].pc = "removing"
    /\ toolCalls' = [toolCalls EXCEPT ![t].pc = "logging"]
    /\ SaveDone(t)
    /\ LogCall(t, LogArg(<<"credential.removed">>, toolCalls[t].siteId, <<"success">>,
                         Undefined, <<"via dashboard">>))
    /\ NoResponse
    /\ UNCHANGED gatewayVars

DeleteLogged(t) ==
    /\ toolCalls[t].op = "delete" /\ toolCalls[t].pc = "logging"
    /\ LogAppend(t)
    /\ RespondHttp(t, "delete", 200, [ok |-> TRUE])
    /\ toolCalls' = [toolCalls EXCEPT ![t] = NoCall]
    /\ UNCHANGED <<storeVars, gatewayVars>>

\* GET /api/credentials: the listing is the response.
ListArrive(t) ==
    /\ serverInstance = "listening"
    /\ toolCalls[t].op = "none"
    /\ Respond(t, "list", listCredentials(credentials))
    /\ UNCHANGED <<toolCalls, storeVars, auditVars, gatewayVars>>

\* ------------------------------------------------------ the sanitizers
Stars == <<"*", "*", "*">>

\* String.prototype.replace(secret, '***'): the first occurrence.
ReplaceFirst(s, sub, rep) ==
    LET i == IndexOf(s, sub)
    IN  SubSeq(s, 1, i) \o rep \o SubSeq(s, i + Len(sub) + 1, Len(s))

\* String.prototype.replaceAll: the occurrences found left to right in the
\* original text, none overlapping another.
RECURSIVE ReplaceAll(_, _, _)
ReplaceAll(s, sub, rep) ==
    IF ~Includes(s, sub) THEN s
    ELSE LET i == IndexOf(s, sub)
         IN  SubSeq(s, 1, i) \o rep \o ReplaceAll(SubSeq(s, i + Len(sub) + 1, Len(s)), sub, rep)

\* The bridge's loop for one secret, while (includes) replace: it ends unless
\* the replacement text itself holds the secret.
LoopsForever(text, secret) == Includes(text, secret) /\ Includes(Stars, secret)

RECURSIVE ReplaceWhile(_, _)
ReplaceWhile(text, secret) ==
    IF Includes(text, secret) THEN ReplaceWhile(ReplaceFirst(text, secret, Stars), secret)
    ELSE text

\* sanitize(message, secrets) of the bridge; empty secrets are skipped.
RECURSIVE sanitizeHangs(_, _)
sanitizeHangs(message, secrets) ==
    IF secrets = <<>> THEN FALSE
    ELSE IF Head(secrets) = <<>> THEN sanitizeHangs(message, Tail(secrets))
    ELSE \/ LoopsForever(message, Head(secrets))
         \/ sanitizeHangs(ReplaceWhile(message, Head(secrets)), Tail(secrets))

RECURSIVE sanitize(_, _)
sanitize(message, secrets) ==
    IF secrets = <<>> THEN message
    ELSE IF Head(secrets) = <<>> THEN sanitize(message, Tail(secrets))
    ELSE sanitize(ReplaceWhile(message, Head(secrets)), Tail(secrets))

\* Mutant: an empty secret is not skipped, and matches at the start.
RECURSIVE SanitizeAllEmptyToo(_, _)
SanitizeAllEmptyToo(text, secrets) ==
    IF secrets = <<>> THEN text
    ELSE IF Head(secrets) = <<>>
    THEN SanitizeAllEmptyToo(Stars \o text, Tail(secrets))
    ELSE IF Includes(text, Head(secrets))
    THEN SanitizeAllEmptyToo(ReplaceAll(text, Head(secrets), Stars), Tail(secrets))
    ELSE SanitizeAllEmptyToo(text, Tail(secrets))

\* The loop of vaultApiRequest: one replaceAll per secret found in the text.
RECURSIVE SanitizeAll(_, _)
SanitizeAll(text, secrets) ==
    IF secrets = <<>> THEN text
    ELSE IF Head(secrets) # <<>> /\ Head(secrets) # Undefined /\ Includes(text, Head(secrets))
    THEN SanitizeAll(ReplaceAll(text, Head(secrets), Stars), Tail(secrets))
    ELSE SanitizeAll(text, Tail(secrets))

\* Either sanitizer is handed a message and two secrets: the bridge's returns
\* a text or never returns, vaultApiRequest's returns a text.
SanitizeCall(t, message, secrets) ==
    /\ toolCalls[t].op = "none"
    /\ Respond(t, "sanitize",
               [message |-> message, secrets |-> secrets,
                bridge |-> IF sanitizeHangs(message, secrets)
                           THEN [kind |-> "hangs", text |-> <<>>]
                           ELSE [kind |-> "returns", text |-> sanitize(message, secrets)],
                api |-> SanitizeAll(message, secrets)])
    /\ UNCHANGED <<toolCalls, storeVars, auditVars, gatewayVars>>

\* ------------------------------------------------------------ vault_login
\* What the browser does with the login: it cannot be reached, times out, a
\* selector is missing, the page settles (with its title), or Playwright
\* throws an error with some text.
PageTexts == {<<>>, <<"o", "k">>, <<"e">>, <<"a", "e">>, <<"x", "p">>, <<"*">>}

BrowserOutcomes ==
    {[kind |-> k, text |-> <<>>] :
        k \in {"connect", "goto", "emailSelector", "passwordSelector", "submitSelector"}}
    \cup {[kind |-> k, text |-> x] : k \in {"idleTimeout", "success", "thrown"},
                                     x \in PageTexts}

\* CdpBridge.performLogin for an outcome of the browser.
performLogin(outcome, email, password) ==
    CASE outcome.kind = "connect" ->
            [success |-> FALSE, pageTitle |-> <<>>,
             message |-> <<"Cannot connect to Chrome. Start Chrome with --remote-debugging-port=9222">>]
      [] outcome.kind = "goto" ->
            [success |-> FALSE, pageTitle |-> <<>>, message |-> <<"Login timed out after 15s">>]
      [] outcome.kind \in {"emailSelector", "passwordSelector", "submitSelector"} ->
            [success |-> FALSE, pageTitle |-> <<>>,
             message |-> <<"Selector not found: ", outcome.kind>>]
      [] outcome.kind = "idleTimeout" ->
            [success |-> FALSE, pageTitle |-> outcome.text,
             message |-> <<"Login timed out after 15s">>]
      [] outcome.kind = "success" ->
            [success |-> TRUE, pageTitle |-> outcome.text, message |-> <<"Login successful">>]
      [] outcome.kind = "thrown" ->
            [success |-> FALSE, pageTitle |-> <<>>,
             message |-> sanitize(outcome.text, <<password, email>>)]

performLoginHangs(outcome, email, password) ==
    outcome.kind = "thrown" /\ sanitizeHangs(outcome.text, <<password, email>>)

\* Mutant: the audit entry of a failed precondition gives no reason.
FailUnnamed(t, op, siteId, details, message) ==
    /\ LogCall(t, LogArg(<<"credential.used">>, siteId, <<"failure">>, <<"claude">>, <<>>))
    /\ toolCalls' = [toolCalls EXCEPT ![t] =
            [op |-> op, pc |-> "logging", siteId |-> siteId,
             result |-> [status |-> <<"failure">>, message |-> message]]]

\* Mutant: a failed precondition is recorded as a success.
FailAsSuccess(t, op, siteId, details, message) ==
    /\ LogCall(t, LogArg(<<"credential.used">>, siteId, <<"success">>, <<"claude">>, details))
    /\ toolCalls' = [toolCalls EXCEPT ![t] =
            [op |-> op, pc |-> "logging", siteId |-> siteId,
             result |-> [status |-> <<"failure">>, message |-> message]]]

\* A tool reports a failed precondition: it suspends in audit.log and will
\* return the failure.
Fail(t, op, siteId, details, message) ==
    /\ LogCall(t, LogArg(<<"credential.used">>, siteId, <<"failure">>, <<"claude">>, details))
    /\ toolCalls' = [toolCalls EXCEPT ![t] =
            [op |-> op, pc |-> "logging", siteId |-> siteId,
             result |-> [status |-> <<"failure">>, message |-> message]]]

\* vaultLogin up to its suspension in audit.log (a precondition fails) or in
\* performLogin. When getCredential throws, so does vaultLogin, at once: the
\* call is over and what its caller gets is the error.
VaultLoginCall(t, siteId) ==
    /\ toolCalls[t].op = "none"
    /\ LogRoom
    /\ LET cred == getCredential(credentials, siteId, getMasterKey(envKey))
       IN  /\ IF cred.kind = "throws"
              THEN ret' = [u \in Tasks |->
                             IF u = t THEN [op |-> "vault_login", siteId |-> siteId,
                                            value |-> [thrown |-> <<"Unsupported state or unable to authenticate data">>]]
                             ELSE NoRet]
              ELSE NoResponse
           /\ IF cred.kind = "throws"
              THEN UNCHANGED <<toolCalls, auditVars>>
              ELSE IF cred.kind = "null"
              THEN Fail(t, "vault_login", siteId, <<"Credential not found">>,
                        <<"Credential not found: ">> \o siteId)
              ELSE IF ~cred.metadata.active
              THEN Fail(t, "vault_login", siteId, <<"Credential is inactive">>,
                        <<"Credential is inactive: ">> \o siteId)
              ELSE IF cred.metadata.serviceType # <<"web_login">>
              THEN Fail(t, "vault_login", siteId, <<"Not a web_login credential">>,
                        siteId \o <<" is not a web_login credential. Use vault_api_request instead.">>)
              ELSE IF ~Truthy(cred.metadata.loginUrl) \/ cred.metadata.selectors = Undefined
              THEN Fail(t, "vault_login", siteId, <<"Missing login URL or selectors">>,
                        siteId \o <<" is missing loginUrl or selectors configuration">>)
              ELSE /\ toolCalls' = [toolCalls EXCEPT ![t] =
                          [op |-> "vault_login", pc |-> "browser", siteId |-> siteId,
                           email |-> OrElse(Field(cred.data, "email"), <<>>),
                           password |-> OrElse(Field(cred.data, "password"), <<>>)]]
                   /\ UNCHANGED auditVars
    /\ UNCHANGED <<storeVars, gatewayVars>>

\* performLogin returns (or never does, when its sanitizer loops); the tool
\* suspends in audit.log with the result it will return.
VaultLoginBrowser(t, outcome) ==
    /\ toolCalls[t].op = "vault_login" /\ toolCalls[t].pc = "browser"
    /\ IF performLoginHangs(outcome, toolCalls[t].email, toolCalls[t].password)
       THEN /\ toolCalls' = [toolCalls EXCEPT ![t].pc = "hung"]
            /\ UNCHANGED auditVars
       ELSE LET result == performLogin(outcome, toolCalls[t].email, toolCalls[t].password)
                status == IF result.success THEN <<"success">> ELSE <<"failure">>
            IN  /\ LogCall(t, LogArg(<<"credential.used">>, toolCalls[t].siteId, status,
                                     <<"claude">>, result.message))
                /\ toolCalls' = [toolCalls EXCEPT ![t] =
                        [op |-> "vault_login", pc |-> "logging", siteId |-> @.siteId,
                         result |-> [status |-> status, page_title |-> result.pageTitle,
                                     message |-> result.message]]]
    /\ NoResponse
    /\ UNCHANGED <<storeVars, gatewayVars>>

\* audit.log returns and so does the tool.
VaultLoginLogged(t) ==
    /\ toolCalls[t].op = "vault_login" /\ toolCalls[t].pc = "logging"
    /\ LogAppend(t)
    /\ ret' = [u \in Tasks |->
               IF u = t THEN [op |-> "vault_login", siteId |-> toolCalls[t].siteId,
                              value |-> toolCalls[t].result]
               ELSE NoRet]
    /\ toolCalls' = [toolCalls EXCEPT ![t] = NoCall]
    /\ UNCHANGED <<storeVars, gatewayVars>>

\* ------------------------------------------------------ vault_api_request
\* { ...storedHeaders, ...(headers || {}) }: a caller's header replaces the
\* stored one of the same name, in the stored one's place.
RECURSIVE MergeHeaders(_, _)
MergeHeaders(base, extra) ==
    IF extra = <<>> THEN base
    ELSE MergeHeaders(Put(base, Head(extra)[1], Head(extra)[2]), Tail(extra))

ObjectValues(obj) == [i \in 1..Len(obj) |-> obj[i][2]]

\* What the network does with the request: a response with a body, or an
\* error with a text.
BodyTexts == {<<>>, <<"o", "k">>, <<"x", "k">>, <<"Bearer ", "k">>, <<"a", "a", "*">>}

FetchOutcomes == {[kind |-> k, text |-> x] : k \in {"response", "error"}, x \in BodyTexts}

\* The headers a caller passes: none, or an Authorization of its own.
CallerHeaders == {Undefined, << <<(<<"Authorization">>), <<"mine">> >> >>}

\* vaultApiRequest up to its suspension in audit.log (a precondition fails)
\* or in fetch. getCredential is called outside the try block: when it
\* throws, so does vaultApiRequest.
VaultApiRequestCall(t, service, headers) ==
    /\ toolCalls[t].op = "none"
    /\ LogRoom
    /\ LET cred == getCredential(credentials, service, getMasterKey(envKey))
       IN  /\ IF cred.kind = "throws"
              THEN ret' = [u \in Tasks |->
                             IF u = t THEN [op |-> "vault_api_request", siteId |-> service,
                                            value |-> [thrown |-> <<"Unsupported state or unable to authenticate data">>]]
                             ELSE NoRet]
              ELSE NoResponse
           /\ IF cred.kind = "throws"
              THEN UNCHANGED <<toolCalls, auditVars>>
              ELSE IF cred.kind = "null"
              THEN Fail(t, "vault_api_request", service, <<"Credential not found">>,
                        <<"Credential not found: ">> \o service)
              ELSE IF ~cred.metadata.active
              THEN Fail(t, "vault_api_request", service, <<"Credential is inactive">>,
                        <<"Credential is inactive: ">> \o service)
              ELSE IF cred.metadata.serviceType # <<"api_key">>
              THEN Fail(t, "vault_api_request", service, <<"Not an api_key credential">>,
                        service \o <<" is not an api_key credential. Use vault_login instead.">>)
              ELSE LET storedHeaders == IF "headers" \in DOMAIN cred.data
                                        THEN cred.data.headers ELSE <<>>
                       apiKey == Field(cred.data, "apiKey")
                   IN  /\ toolCalls' = [toolCalls EXCEPT ![t] =
                              [op |-> "vault_api_request", pc |-> "fetch", siteId |-> service,
                               mergedHeaders |-> MergeHeaders(storedHeaders,
                                                    IF headers = Undefined THEN <<>> ELSE headers),
                               secrets |-> (IF Truthy(apiKey) THEN <<apiKey>> ELSE <<>>)
                                               \o ObjectValues(storedHeaders)]]
                       /\ UNCHANGED auditVars
    /\ UNCHANGED <<storeVars, gatewayVars>>

\* fetch and response.text() settle; the text is sanitized and the tool
\* suspends in audit.log with the result it will return.
VaultApiRequestFetched(t, outcome) ==
    /\ toolCalls[t].op = "vault_api_request" /\ toolCalls[t].pc = "fetch"
    /\ LET text == SanitizeAll(outcome.text, toolCalls[t].secrets)
           ok == outcome.kind = "response"
       IN  /\ LogCall(t, LogArg(<<"credential.used">>, toolCalls[t].siteId,
                                IF ok THEN <<"success">> ELSE <<"failure">>, <<"claude">>,
                                IF ok THEN <<"GET", " ", "https://api/", " -> ", "200">>
                                      ELSE text))
           /\ toolCalls' = [toolCalls EXCEPT ![t] =
                   [op |-> "vault_api_request", pc |-> "logging", siteId |-> @.siteId,
                    secrets |-> @.secrets,
                    result |-> IF ok
                               THEN [status |-> <<"success">>, httpStatus |-> <<"200">>,
                                     body |-> text]
                               ELSE [status |-> <<"failure">>, message |-> text]]]
    /\ NoResponse
    /\ UNCHANGED <<storeVars, gatewayVars>>

\* audit.log returns and so does the tool.
VaultApiRequestLogged(t) ==
    /\ toolCalls[t].op = "vault_api_request" /\ toolCalls[t].pc = "logging"
    /\ LogAppend(t)
    /\ ret' = [u \in Tasks |->
               IF u = t THEN [op |-> "vault_api_request", siteId |-> toolCalls[t].siteId,
                              value |-> toolCalls[t].result]
               ELSE NoRet]
    /\ toolCalls' = [toolCalls EXCEPT ![t] = NoCall]
    /\ UNCHANGED <<storeVars, gatewayVars>>

\* ------------------------------------------- alterations from outside
\* The values an editor of the file may write into a field: for a digest
\* field, the genesis literal, a digest already in the file and a made-up one;
\* for any other field, a value of the format other than the one it holds.
TamperValues(file, key, old) ==
    IF key \in {"prevHash", "hash"}
    THEN {Genesis, Sha256Hex(<<"forged">>)}
            \cup {Get(getEntries(file)[i], "hash") : i \in 1..Len(file)}
    ELSE {IF old = <<"success">> THEN <<"failure">> ELSE <<"success">>}

Quiet == \A u \in Tasks : logCalls[u].pc = "idle"

\* One field of the entry at 0-based index k is given another value.
TamperField(k, key, v) ==
    /\ tamper.kind = "none" /\ Quiet
    /\ k + 1 \in 1..Len(auditFile)
    /\ LET entry == JSONParse(auditFile[k + 1])
       IN  /\ HasKey(entry, key)
           /\ v \in TamperValues(auditFile, key, Get(entry, key))
           /\ Get(entry, key) # v
           /\ auditFile' = [auditFile EXCEPT ![k + 1] = JSONStringify(Put(entry, key, v))]
    /\ tamper' = [kind |-> "field", idx |-> k]
    /\ verifyResult' = NotVerified
    /\ UNCHANGED logCalls

\* The entry at 0-based index k is removed (the last one: a truncation).
TamperDelete(k) ==
    /\ tamper.kind = "none" /\ Quiet
    /\ k + 1 \in 1..Len(auditFile)
    /\ auditFile' = SubSeq(auditFile, 1, k) \o SubSeq(auditFile, k + 2, Len(auditFile))
    /\ tamper' = [kind |-> "delete", idx |-> k]
    /\ verifyResult' = NotVerified
    /\ UNCHANGED logCalls

\* The entries at 0-based indexes j < k change places.
TamperSwap(j, k) ==
    /\ tamper.kind = "none" /\ Quiet
    /\ j < k /\ j + 1 \in 1..Len(auditFile) /\ k + 1 \in 1..Len(auditFile)
    /\ auditFile' = [auditFile EXCEPT ![j + 1] = auditFile[k + 1], ![k + 1] = auditFile[j + 1]]
    /\ tamper' = [kind |-> "reorder", idx |-> j]
    /\ verifyResult' = NotVerified
    /\ UNCHANGED logCalls

AllTamperValues(file) ==
    UNION {TamperValues(file, key, old) :
              key \in {"hash", "result"}, old \in {<<"success">>, <<"failure">>}}

EntryKeys == {"eventId", "timestamp", "action", "credentialId", "result",
              "prevHash", "botId", "details", "hash"}

\* ------------------------------------------------------ specifications
\* VAULT_MASTER_KEY as the tests set it.
EnvKeys == {<<"test-key">>}

Init ==
    /\ now = 0
    /\ AuditInit
    /\ StoreInit
    /\ envKey \in EnvKeys
    /\ GatewayInit
    /\ toolCalls = [t \in Tasks |-> NoCall]
    /\ ret = [t \in Tasks |-> NoRet]

restOfAudit == <<now, storeVars, gatewayVars, toolCalls, ret>>

\* The audit log with its appends one at a time.
NextAudit ==
    \/ \E t \in Tasks, args \in LogArgs : LogCallAlone(t, args) /\ UNCHANGED restOfAudit
    \/ \E t \in Tasks : LogRead(t) /\ UNCHANGED restOfAudit
    \/ \E t \in Tasks : LogAppend(t) /\ UNCHANGED restOfAudit
    \/ VerifyChainCall /\ UNCHANGED restOfAudit
    \/ Tick /\ UNCHANGED <<auditVars, storeVars, gatewayVars, toolCalls, ret>>

SpecAudit == Init /\ [][NextAudit]_vars

\* The audit log written by appends one at a time, then altered from outside
\* and verified.  The clock stands still: the timestamp is one more field
\* under the digest.
NextAuditTamper ==
    \/ \E t \in Tasks, args \in LogArgs : LogCallAlone(t, args) /\ UNCHANGED restOfAudit
    \/ \E t \in Tasks : LogRead(t) /\ UNCHANGED restOfAudit
    \/ \E t \in Tasks : LogAppend(t) /\ UNCHANGED restOfAudit
    \/ VerifyChainCall /\ UNCHANGED restOfAudit
    \/ \E k \in 0..MaxEntries, key \in EntryKeys, v \in AllTamperValues(auditFile) :
            TamperField(k, key, v) /\ UNCHANGED restOfAudit
    \/ \E k \in 0..MaxEntries : TamperDelete(k) /\ UNCHANGED restOfAudit
    \/ \E j, k \in 0..MaxEntries : TamperSwap(j, k) /\ UNCHANGED restOfAudit

SpecAuditTamper == Init /\ [][NextAuditTamper]_vars

\* The audit log with overlapping log calls.
NextAuditConc ==
    \/ \E t \in Tasks, args \in LogArgs : LogCall(t, args) /\ UNCHANGED restOfAudit
    \/ \E t \in Tasks : LogRead(t) /\ UNCHANGED restOfAudit
    \/ \E t \in Tasks : LogAppend(t) /\ UNCHANGED restOfAudit
    \/ VerifyChainCall /\ UNCHANGED restOfAudit
    \/ Tick /\ UNCHANGED <<auditVars, storeVars, gatewayVars, toolCalls, ret>>

SpecAuditConc == Init /\ [][NextAuditConc]_vars

\* The gateway: vault_add, the request handlers, the read-only tools, with
\* the clock standing still.
\* One tool call of the agent and one request of the browser at a time.
ToolTasks == {"t1"}
HandlerTasks == {"t2"}

NextGateway ==
    \/ (\E t \in ToolTasks, a \in AddArgs : VaultAddCall(t, a)) /\ UNCHANGED now
    \/ (\E t \in ToolTasks : VaultAddListening(t)) /\ UNCHANGED now
    \/ (\E tk \in timers : VaultAddTimeout(tk)) /\ UNCHANGED now
    \/ (\E t \in HandlerTasks : \E b \in PostBodies : PostArrive(t, b)) /\ UNCHANGED now
    \/ (\E t \in HandlerTasks : PostBody(t)) /\ UNCHANGED now
    \/ (\E t \in HandlerTasks : PostAdded(t)) /\ UNCHANGED now
    \/ (\E t \in Tasks : LogRead(t)) /\ NoResponse
            /\ UNCHANGED <<now, storeVars, gatewayVars, toolCalls>>
    \/ (\E t \in HandlerTasks : PostLogged(t)) /\ UNCHANGED now
    \/ (\E t \in HandlerTasks, s \in SiteIds, a \in {<<"true">>, <<"false">>, Undefined} :
            PatchArrive(t, s, a))
            /\ UNCHANGED now
    \/ (\E t \in HandlerTasks : PatchBody(t)) /\ UNCHANGED now
    \/ (\E t \in HandlerTasks : PatchToggled(t)) /\ UNCHANGED now
    \/ (\E t \in HandlerTasks : PatchLogged(t)) /\ UNCHANGED now
    \/ (\E t \in HandlerTasks, s \in SiteIds : DeleteArrive(t, s)) /\ UNCHANGED now
    \/ (\E t \in HandlerTasks : DeleteRemoved(t)) /\ UNCHANGED now
    \/ (\E t \in HandlerTasks : DeleteLogged(t)) /\ UNCHANGED now
    \/ (\E t \in HandlerTasks : ListArrive(t)) /\ UNCHANGED now
    \/ (\E t \in ToolTasks, s \in SiteIds : GetCredentialCall(t, s)) /\ UNCHANGED now
    \/ (\E t \in ToolTasks : VaultListCall(t)) /\ UNCHANGED now
    \/ (\E t \in ToolTasks, s \in SiteIds : VaultStatusCall(t, s)) /\ UNCHANGED now
    \/ (\E t \in ToolTasks : VaultStatusReturn(t)) /\ UNCHANGED now

SpecGateway == Init /\ [][NextGateway]_vars

\* The same with the event loop running: an armed timer fires in the end.
AllTokens == {RandomUUID(n) : n \in 0..(MaxDraws - 1)}

SpecGatewayFair ==
    SpecGateway /\ \A tk \in AllTokens : WF_vars(VaultAddTimeout(tk) /\ UNCHANGED now)

\* vault_login on a store loaded from disk: a web login on the first site
\* and, on the second, nothing, an API key (inactive or active) or a web
\* login saved without its login URL or without its selectors.
Emails == {<<>>, <<"e">>}
LoginPasswords == {<<"p">>, <<"a", "*">>, <<"*">>}

Loaded(n, siteId, serviceType, plainData, loginUrl, selectors, active) ==
    [NewStored(n, siteId, serviceType, plainData, loginUrl, selectors, 0, CHOOSE k \in EnvKeys : TRUE)
        EXCEPT !.active = active]

LoginStores ==
    LET first(e, pw) == Loaded(0, <<"s1">>, <<"web_login">>, [email |-> e, password |-> pw],
                               <<"https://s1/login">>, Selectors, TRUE)
        apiKey(active) == Loaded(2, <<"s2">>, <<"api_key">>,
                                 [apiKey |-> <<"k">>,
                                  headers |-> << <<(<<"Authorization">>), <<"Bearer ", "k">> >> >>],
                                 Undefined, Undefined, active)
        webLogin(url, sel) == Loaded(2, <<"s2">>, <<"web_login">>,
                                     [email |-> <<"e">>, password |-> <<"p">>], url, sel, TRUE)
        seconds == {apiKey(FALSE), apiKey(TRUE), webLogin(Undefined, Selectors),
                    webLogin(<<"https://s2/login">>, Undefined)}
    IN  {<<first(e, pw)>> : e \in Emails, pw \in LoginPasswords}
        \cup {<<first(e, pw), second>> : e \in Emails, pw \in LoginPasswords, second \in seconds}

\* EncryptedStore.init() with a credentials.json left by earlier runs, under
\* the VAULT_MASTER_KEY of those runs or under another one.
InitLoaded(stores) ==
    /\ now = 0
    /\ AuditInit
    /\ envKey \in EnvKeys \cup {<<"wrong-key">>}
    /\ keychain = [cachedKey |-> Null, cachedKeySource |-> Null, keyFiles |-> {}]
    /\ credentials \in stores
    /\ credentialsFile = JSONStringifyCredentials(credentials)
    /\ nextRandom = 2 * Len(credentials)
    /\ storeCalls = [t \in Tasks |-> IdleStore]
    /\ GatewayInit
    /\ toolCalls = [t \in Tasks |-> NoCall]
    /\ ret = [t \in Tasks |-> NoRet]

NextLogin ==
    \/ (\E t \in ToolTasks, s \in SiteIds :
            Len(auditFile) < MaxCalls /\ VaultLoginCall(t, s)) /\ UNCHANGED now
    \/ (\E t \in ToolTasks, o \in BrowserOutcomes : VaultLoginBrowser(t, o)) /\ UNCHANGED now
    \/ (\E t \in ToolTasks : LogRead(t)) /\ NoResponse
            /\ UNCHANGED <<now, storeVars, gatewayVars, toolCalls>>
    \/ (\E t \in ToolTasks : VaultLoginLogged(t)) /\ UNCHANGED now

SpecLogin == InitLoaded(LoginStores) /\ [][NextLogin]_vars

\* vault_api_request on a store loaded from disk: an API key on the first
\* site with its Authorization header and, on the second, nothing or a web
\* login, inactive or active.
ApiSecrets == {<<"k">>, <<"a", "*">>}

ApiStores ==
    LET first(k) == Loaded(0, <<"s1">>, <<"api_key">>,
                           [apiKey |-> k,
                            headers |-> << <<(<<"Authorization">>), <<"Bearer ">> \o k>> >>],
                           Undefined, Undefined, TRUE)
        second(active) == Loaded(2, <<"s2">>, <<"web_login">>,
                                 [email |-> <<"e">>, password |-> <<"p">>],
                                 <<"https://s2/login">>, Selectors, active)
    IN  {<<first(k)>> : k \in ApiSecrets}
        \cup {<<first(k), second(a)>> : k \in ApiSecrets, a \in BOOLEAN}

NextApi ==
    \/ (\E t \in ToolTasks, s \in SiteIds, h \in CallerHeaders :
            Len(auditFile) < MaxCalls /\ VaultApiRequestCall(t, s, h)) /\ UNCHANGED now
    \/ (\E t \in ToolTasks, o \in FetchOutcomes : VaultApiRequestFetched(t, o))
            /\ UNCHANGED now
    \/ (\E t \in ToolTasks : LogRead(t)) /\ NoResponse
            /\ UNCHANGED <<now, storeVars, gatewayVars, toolCalls>>
    \/ (\E t \in ToolTasks : VaultApiRequestLogged(t)) /\ UNCHANGED now

SpecApi == InitLoaded(ApiStores) /\ [][NextApi]_vars

\* The sanitizers, called once, on any message of up to MaxLen characters
\* and any two secrets, empty ones among them.
SpecSanitize ==
    Init /\ [][(\E t \in ToolTasks :
                   /\ ret[t].op = "none"
                   /\ \E m \in UNION {[1..n -> {"a", "b", "*"}] : n \in 0..MaxLen} :
                      \E x, y \in {<<>>, <<"a">>, <<"*">>, <<"a", "b">>, <<"b", "*">>,
                                   <<"*", "*", "*">>} :
                          SanitizeCall(t, m, <<x, y>>)) /\ UNCHANGED now]_vars

\* The agent with both tools, on either kind of store.
SpecTools == InitLoaded(LoginStores \cup ApiStores) /\ [][NextLogin \/ NextApi]_vars

\* ------------------------------------------------- the store API, in sequence
\* A caller of EncryptedStore awaits each call before it makes the next.
\* The credentials it adds: two web logins on one site id, an API key on
\* another.
StoreAdds ==
    {[siteId |-> <<"s1">>, serviceType |-> <<"web_login">>,
      data |-> [email |-> <<"e">>, password |-> pw],
      loginUrl |-> <<"https://s1/login">>, selectors |-> Selectors] : pw \in Passwords}
    \cup {[siteId |-> <<"s2">>, serviceType |-> <<"api_key">>,
           data |-> [apiKey |-> <<"k">>], loginUrl |-> Undefined, selectors |-> Undefined]}

\* What the caller keeps of the call it made just before this one: of a
\* toggle its arguments and result, of an add its site id.
Earlier(t) ==
    IF ret[t].op = "store_toggle"
    THEN [op |-> ret[t].op, siteId |-> ret[t].value.siteId, arg |-> ret[t].value.arg,
          result |-> ret[t].value.result]
    ELSE IF ret[t].op = "store_add"
    THEN [op |-> ret[t].op, siteId |-> ret[t].value.siteId]
    ELSE [op |-> "none"]

\* The call as the caller holds it while it waits: its arguments, and the
\* vector and the file as they were when it was made.
StoreCall(t, op, siteId, arg) ==
    [op |-> op, pc |-> "saving", siteId |-> siteId, arg |-> arg,
     before |-> credentials, beforeFile |-> credentialsFile, prev |-> Earlier(t)]

StoreResult(call, result) ==
    [siteId |-> call.siteId, arg |-> call.arg, result |-> result,
     before |-> call.before, beforeFile |-> call.beforeFile, prev |-> call.prev]

StoreAddCall(t, a) ==
    /\ toolCalls[t].op = "none"
    /\ nextRandom < 2 * MaxCreds
    /\ AddCredential(t, a.siteId, a.serviceType, a.data, a.loginUrl, a.selectors)
    /\ toolCalls' = [toolCalls EXCEPT ![t] = StoreCall(t, "store_add", a.siteId, a.data)]
    /\ NoResponse
    /\ UNCHANGED <<auditVars, gatewayVars>>

\* removeCredential: false at once when no credential has the site id.
StoreRemoveCall(t, siteId) ==
    /\ toolCalls[t].op = "none"
    /\ IF FindIndex(credentials, siteId) = 0
       THEN /\ Respond(t, "store_remove",
                       StoreResult(StoreCall(t, "store_remove", siteId, Undefined), FALSE))
            /\ UNCHANGED <<storeVars, toolCalls>>
       ELSE /\ RemoveCredential(t, siteId)
            /\ toolCalls' = [toolCalls EXCEPT ![t] =
                    StoreCall(t, "store_remove", siteId, Undefined)]
            /\ NoResponse
    /\ UNCHANGED <<auditVars, gatewayVars>>

\* toggleActive: false at once when no credential has the site id.
StoreToggleCall(t, siteId, active) ==
    /\ toolCalls[t].op = "none"
    /\ IF FindIndex(credentials, siteId) = 0
       THEN /\ Respond(t, "store_toggle",
                       StoreResult(StoreCall(t, "store_toggle", siteId, active), FALSE))
            /\ UNCHANGED <<storeVars, toolCalls>>
       ELSE /\ ToggleActive(t, siteId, active)
            /\ toolCalls' = [toolCalls EXCEPT ![t] =
                    StoreCall(t, "store_toggle", siteId, active)]
            /\ NoResponse
    /\ UNCHANGED <<auditVars, gatewayVars>>

\* save() returns and the method returns its result to the caller.
StoreReturn(t) ==
    /\ toolCalls[t].op \in {"store_add", "store_remove", "store_toggle", "store_init"}
    /\ toolCalls[t].pc = "saving"
    /\ SaveDone(t)
    /\ Respond(t, toolCalls[t].op, StoreResult(toolCalls[t], storeCalls[t].result))
    /\ toolCalls' = [toolCalls EXCEPT ![t] = NoCall]
    /\ UNCHANGED <<auditVars, gatewayVars>>

\* A second EncryptedStore on the same directory: init() parses the file;
\* the objects are rebuilt from the properties the text holds.
JSONParseCredentials(file) ==
    [i \in 1..Len(file) |-> [k \in DOMAIN file[i] |-> file[i][k]]]

NextStore ==
    \/ (\E t \in ToolTasks, a \in StoreAdds : StoreAddCall(t, a)) /\ UNCHANGED now
    \/ (\E t \in ToolTasks, s \in SiteIds : StoreRemoveCall(t, s)) /\ UNCHANGED now
    \/ (\E t \in ToolTasks, s \in SiteIds, a \in BOOLEAN : StoreToggleCall(t, s, a))
            /\ UNCHANGED now
    \/ (\E t \in ToolTasks : StoreReturn(t)) /\ UNCHANGED now
    \/ (\E t \in ToolTasks, s \in SiteIds : GetCredentialCall(t, s)) /\ UNCHANGED now
    \/ Tick /\ UNCHANGED <<auditVars, storeVars, gatewayVars, toolCalls, ret>>

SpecStore == Init /\ [][NextStore]_vars

\* ------------------------------------------- a store opened on a directory
\* credentials.json as init() finds it: the records of its text, or one of
\* two other contents, no file at all and a text JSON.parse rejects.
Unreadable == { << [file |-> "absent"] >>, << [file |-> "malformed"] >> }

\* init(): readFile and JSON.parse inside one try; whatever is thrown there,
\* the vector is set to [] and saved.
StoreInitCall(t) ==
    /\ toolCalls[t].op = "store_init" /\ toolCalls[t].pc = "new"
    /\ IF credentialsFile \in Unreadable
       THEN /\ credentials' = <<>>
            /\ storeCalls' = [storeCalls EXCEPT ![t] =
                    [pc |-> "saving", op |-> "init",
                     content |-> JSONStringifyCredentials(<<>>), result |-> TRUE]]
            /\ toolCalls' = [toolCalls EXCEPT ![t] =
                    StoreCall(t, "store_init", Undefined, Undefined)]
            /\ NoResponse
            /\ UNCHANGED credentialsFile
       ELSE /\ credentials' = JSONParseCredentials(credentialsFile)
            /\ Respond(t, "store_init",
                       StoreResult(StoreCall(t, "store_init", Undefined, Undefined), TRUE))
            /\ toolCalls' = [toolCalls EXCEPT ![t] = NoCall]
            /\ UNCHANGED <<credentialsFile, storeCalls>>
    /\ UNCHANGED <<envKey, keychain, nextRandom, auditVars, gatewayVars>>

\* process.env.VAULT_MASTER_KEY is given another value between two calls.
SetEnvKey(k) ==
    /\ envKey # k
    /\ \A t \in Tasks : toolCalls[t].op = "none"
    /\ envKey' = k
    /\ NoResponse
    /\ UNCHANGED <<keychain, nextRandom, credentials, credentialsFile, storeCalls,
                   toolCalls, auditVars, gatewayVars>>

\* new EncryptedStore(dataDir) on a directory that holds no credentials.json,
\* a malformed one, or one written by an earlier run; init() is to be called.
InitOpen ==
    /\ now = 0
    /\ AuditInit
    /\ envKey \in EnvKeys
    /\ keychain = [cachedKey |-> Null, cachedKeySource |-> Null, keyFiles |-> {}]
    /\ credentials = <<>>
    /\ credentialsFile \in Unreadable
                            \cup {JSONStringifyCredentials(c) : c \in ApiStores}
    /\ nextRandom = IF credentialsFile \in Unreadable THEN 0
                    ELSE 2 * Len(credentialsFile)
    /\ storeCalls = [t \in Tasks |-> IdleStore]
    /\ GatewayInit
    /\ toolCalls = [t \in Tasks |->
                       IF t \in ToolTasks THEN [op |-> "store_init", pc |-> "new"] ELSE NoCall]
    /\ ret = [t \in Tasks |-> NoRet]

NextOpen ==
    \/ (\E t \in ToolTasks : StoreInitCall(t)) /\ UNCHANGED now
    \/ (\E t \in ToolTasks : StoreReturn(t)) /\ UNCHANGED now
    \/ (\E k \in EnvKeys \cup {<<"wrong-key">>} : SetEnvKey(k)) /\ UNCHANGED now
    \/ (\E t \in ToolTasks, a \in StoreAdds : StoreAddCall(t, a)) /\ UNCHANGED now
    \/ (\E t \in ToolTasks, s \in SiteIds : GetCredentialCall(t, s)) /\ UNCHANGED now

SpecOpen == InitOpen /\ [][NextOpen]_vars

\* ------------------------------------------------------------ the keychain
\* getMasterKey(dataDir), run through with no other task in between: the
\* cached key if the cache was filled under the same source string, else the
\* key derived from the variable, else the 32-byte .master-key file of the
\* vault directory, else a new key, written there.
GetMasterKeyCall(t, dataDir) ==
    /\ toolCalls[t].op = "none"
    /\ LET source == OrElse(envKey, OrElse(dataDir, <<"default">>))
           cached == keychain.cachedKey # Null /\ keychain.cachedKeySource = source
           vaultDir == OrElse(dataDir, <<"~/.vault-mcp">>)
           onDisk == {f \in keychain.keyFiles : f[1] = vaultDir}
           fileKeys == {f[2] : f \in {g \in onDisk :
                            /\ Len(g[2]) > 2
                            /\ SubSeq(g[2], Len(g[2]) - 1, Len(g[2]))
                                  = NumberToString(KEY_LENGTH)}}
           newKey == RandomBytes(nextRandom, KEY_LENGTH)
           generate == ~cached /\ ~Truthy(envKey) /\ fileKeys = {}
           key == IF cached THEN keychain.cachedKey
                  ELSE IF Truthy(envKey) THEN ScryptSync(envKey, KEY_LENGTH)
                  ELSE IF fileKeys # {} THEN CHOOSE k \in fileKeys : TRUE
                  ELSE newKey
       IN  /\ keychain' = [cachedKey |-> key, cachedKeySource |-> source,
                           keyFiles |-> IF generate
                                        THEN (keychain.keyFiles \ onDisk)
                                                \cup {<<vaultDir, newKey>>}
                                        ELSE keychain.keyFiles]
           /\ nextRandom' = IF generate THEN nextRandom + 1 ELSE nextRandom
           /\ Respond(t, "getMasterKey",
                      [key |-> key, dataDir |-> dataDir, keyFiles |-> keychain.keyFiles])
    /\ UNCHANGED <<envKey, credentials, credentialsFile, storeCalls, toolCalls,
                   auditVars, gatewayVars>>

\* One process in which the variable is set, unset and set to other values
\* (a passphrase, a string that is also a directory, the word default), and
\* keys are asked for the default directory and for another one.
NextKey ==
    \/ (\E t \in ToolTasks, d \in {Undefined, <<"/d1">>} : GetMasterKeyCall(t, d))
            /\ UNCHANGED now
    \/ (\E k \in EnvKeys \cup {Undefined, <<"/d1">>, <<"default">>} : SetEnvKey(k)) /\ UNCHANGED now

SpecKey == Init /\ [][NextKey]_vars

\* getMasterKey(dataDir) up to its suspension in writeFile: the cache does not
\* answer, the variable is unset, readFile found no 32-byte .master-key in the
\* vault directory, the directory is made and a new key is drawn. Neither the
\* file nor the cache holds the key yet.
GetMasterKeyGenerate(t, dataDir) ==
    /\ toolCalls[t].op = "none"
    /\ LET source == OrElse(envKey, OrElse(dataDir, <<"default">>))
           vaultDir == OrElse(dataDir, <<"~/.vault-mcp">>)
       IN  /\ ~(keychain.cachedKey # Null /\ keychain.cachedKeySource = source)
           /\ ~Truthy(envKey)
           /\ \A f \in keychain.keyFiles : f[1] # vaultDir
           /\ toolCalls' = [toolCalls EXCEPT ![t] =
                              [op |-> "getMasterKey", pc |-> "writeFile",
                               dataDir |-> dataDir, source |-> source,
                               newKey |-> RandomBytes(nextRandom, KEY_LENGTH)]]
    /\ nextRandom' = nextRandom + 1
    /\ NoResponse
    /\ UNCHANGED <<envKey, keychain, credentials, credentialsFile, storeCalls,
                   auditVars, gatewayVars>>

\* writeFile resolves: the new key is the content of .master-key, whatever
\* was there; the call fills the cache and returns its key.
GetMasterKeyWritten(t) ==
    /\ toolCalls[t].op = "getMasterKey"
    /\ toolCalls[t].pc = "writeFile"
    /\ LET vaultDir == OrElse(toolCalls[t].dataDir, <<"~/.vault-mcp">>)
           onDisk == {f \in keychain.keyFiles : f[1] = vaultDir}
       IN  /\ keychain' = [cachedKey |-> toolCalls[t].newKey,
                           cachedKeySource |-> toolCalls[t].source,
                           keyFiles |-> (keychain.keyFiles \ onDisk)
                                           \cup {<<vaultDir, toolCalls[t].newKey>>}]
           /\ Respond(t, "getMasterKey",
                      [key |-> toolCalls[t].newKey, dataDir |-> toolCalls[t].dataDir,
                       keyFiles |-> keychain.keyFiles])
    /\ toolCalls' = [toolCalls EXCEPT ![t] = NoCall]
    /\ UNCHANGED <<envKey, nextRandom, credentials, credentialsFile, storeCalls,
                   auditVars, gatewayVars>>

\* One process in which VAULT_MASTER_KEY is deleted, on directories that hold
\* no key file, and getMasterKey is called by tasks that do not wait for each
\* other: a call runs through, or is suspended in writeFile while others run.
SpecKeyConc ==
    Init /\ [][\/ (\E t \in Tasks, d \in {Undefined, <<"/d1">>} : GetMasterKeyCall(t, d))
                    /\ UNCHANGED now
               \/ (\E t \in Tasks, d \in {Undefined, <<"/d1">>} : GetMasterKeyGenerate(t, d))
                    /\ UNCHANGED now
               \/ (\E t \in Tasks : GetMasterKeyWritten(t)) /\ UNCHANGED now
               \/ SetEnvKey(Undefined) /\ UNCHANGED now]_vars

\* Two callers of one store, each awaiting its own calls only: one adds, the
\* other removes and toggles. Their calls overlap, and the writeFile of one
\* may resolve before or after the other's.
NextStoreConc ==
    \/ (\E t \in ToolTasks, a \in StoreAdds : StoreAddCall(t, a)) /\ UNCHANGED now
    \/ (\E t \in HandlerTasks, s \in SiteIds : StoreRemoveCall(t, s)) /\ UNCHANGED now
    \/ (\E t \in HandlerTasks, s \in SiteIds, a \in BOOLEAN : StoreToggleCall(t, s, a))
            /\ UNCHANGED now
    \/ (\E t \in Tasks : StoreReturn(t)) /\ UNCHANGED now

SpecStoreConc == Init /\ [][NextStoreConc]_vars

\* The agent's two tools on a store that its owner fills, switches and
\* empties through the store API meanwhile.
SpecRevoke ==
    Init /\ [][\/ NextLogin
               \/ NextApi
               \/ (\E t \in HandlerTasks, a \in StoreAdds : StoreAddCall(t, a)) /\ UNCHANGED now
               \/ (\E t \in HandlerTasks, s \in SiteIds : StoreRemoveCall(t, s))
                       /\ UNCHANGED now
               \/ (\E t \in HandlerTasks, s \in SiteIds, a \in BOOLEAN :
                       StoreToggleCall(t, s, a)) /\ UNCHANGED now
               \/ (\E t \in HandlerTasks : StoreReturn(t)) /\ UNCHANGED now]_vars

\* ============================================================== claims
\* ------------------------------------------------------------------ C1
\* The email and password sealed under a site id.
StoredSecrets(siteId) ==
    LET cred == getCredential(credentials, siteId, getMasterKey(envKey))
    IN  IF cred.kind = "found" /\ cred.metadata.serviceType = <<"web_login">>
        THEN {Field(cred.data, k) : k \in {"email", "password"}} \ {Undefined, <<>>}
        ELSE {}

\* C1: no field of what vault_login returns (status, page_title, message)
\* holds the stored password or the stored non-empty email.
C1_LoginResponseHasNoSecret ==
    \A t \in Tasks :
        ret[t].op = "vault_login" =>
            \A f \in DOMAIN ret[t].value, x \in StoredSecrets(ret[t].siteId) :
                ~Includes(ret[t].value[f], x)

\* ------------------------------------------------------------------ C2
\* The API key and the header values sealed under a service.
StoredApiSecrets(service) ==
    LET cred == getCredential(credentials, service, getMasterKey(envKey))
    IN  IF cred.kind = "found" /\ cred.metadata.serviceType = <<"api_key">>
        THEN ({Field(cred.data, "apiKey")}
                 \cup {cred.data.headers[i][2] : i \in 1..Len(cred.data.headers)})
             \ {Undefined, <<>>}
        ELSE {}

\* C2: the body or message vault_api_request returns after passing its
\* preconditions holds no occurrence of the stored API key or of a stored
\* header value.
C2_ApiResponseHasNoSecret ==
    \A t \in Tasks :
        ret[t].op = "vault_api_request" =>
            \A f \in DOMAIN ret[t].value \cap {"body", "message"},
               x \in StoredApiSecrets(ret[t].siteId) :
                ~Includes(ret[t].value[f], x)

\* ------------------------------------------------------------------ C3
\* The secrets of the payloads submitted: passwords, API keys, the email and
\* the header values built from the API keys.
SecretValues ==
    Passwords \cup ApiKeys \cup {<<"e">>} \cup {<<"Bearer ">> \o k : k \in ApiKeys}

NoSecretIn(s) == \A x \in SecretValues : ~Includes(s, x)

PayloadKeys == {"encryptedData", "data", "email", "password", "apiKey", "headers"}

ObjectClean(obj) == \A i \in 1..Len(obj) : NoSecretIn(obj[i][2])

MetadataClean(m) ==
    /\ DOMAIN m \cap PayloadKeys = {}
    /\ \A k \in DOMAIN m \ {"active", "selectors"} : NoSecretIn(m[k])
    /\ m.selectors = Undefined \/ ObjectClean(m.selectors)

ListItemClean(item) ==
    /\ DOMAIN item \cap PayloadKeys = {}
    /\ NoSecretIn(item.siteId) /\ NoSecretIn(item.serviceType)

StatusClean(v) ==
    /\ DOMAIN v \cap PayloadKeys = {}
    /\ \A k \in DOMAIN v \ {"active", "auditCount", "lastUsed"} : NoSecretIn(v[k])
    /\ "lastUsed" \in DOMAIN v => (v.lastUsed = Null \/ ObjectClean(v.lastUsed))

\* C3: the metadata returned by the store's list, get and add, and the results
\* of the list and status tools, have no ciphertext field and no field or
\* value of the plaintext payload.
C3_MetadataHasNoSecrets ==
    \A t \in Tasks :
        /\ (storeCalls[t].pc = "saving" /\ storeCalls[t].op = "add")
                => MetadataClean(storeCalls[t].result)
        /\ ret[t].op = "add" => MetadataClean(ret[t].value)
        /\ (ret[t].op = "get" /\ ret[t].value.kind = "found")
                => MetadataClean(ret[t].value.metadata)
        /\ ret[t].op = "list"
                => \A i \in 1..Len(ret[t].value) : MetadataClean(ret[t].value[i])
        /\ ret[t].op = "vault_list"
                => \A i \in 1..Len(ret[t].value.credentials) :
                       ListItemClean(ret[t].value.credentials[i])
        /\ ret[t].op = "vault_status" => StatusClean(ret[t].value)

\* A listing of a store that holds a sealed password, and a status that
\* reports a last use.
C3_Witness ==
    /\ \E t \in Tasks :
           /\ ret[t].op = "list" /\ Len(ret[t].value) = MaxCreds
           /\ \E i \in 1..Len(credentials) :
                  "password" \in DOMAIN decrypt(credentials[i].encryptedData,
                                                getMasterKey(envKey))

\* ------------------------------------------------------------------ C4
AddSuccessMessage(siteId) ==
    <<"Credential \"">> \o siteId \o <<"\" has been securely added to the vault. You can now use vault_login or vault_api_request with it.">>

\* C4: what vault_add returns is the timeout outcome, or the success outcome
\* built from the site id of the request that resolved its token: status,
\* site_id and message only, whatever secret the request carried.
C4_AddOutcomeIgnoresSecret ==
    \A t \in Tasks :
        ret[t].op = "vault_add" =>
            LET v == ret[t].value
            IN  \/ v = [status |-> <<"timeout">>,
                        message |-> <<"Credential form was not submitted within 5 minutes. Try again with vault_add.">>]
                \/ \E n \in notified :
                      /\ n[1] = ret[t].token
                      /\ v = [status |-> <<"success">>, site_id |-> n[2],
                              message |-> AddSuccessMessage(n[2])]
                      /\ NoSecretIn(v.site_id) /\ NoSecretIn(v.message)

\* vault_add returns success for a form that carried the second password.
C4_Witness ==
    \E t \in Tasks :
        /\ ret[t].op = "vault_add" /\ ret[t].value.status = <<"success">>
        /\ \E u \in Tasks :
               /\ ret[u].op = "add"
               /\ getCredential(credentials, ret[u].value.siteId,
                                 getMasterKey(envKey)).data.password = <<"q">>

\* ----------------------------------------------------------------- C11
\* C11: a step returns an outcome to vault_add only for a call that is waiting
\* on its token while the token is pending, and the token is pending no
\* longer after the step; a token becomes pending only when its call starts
\* to wait.  So each token is resolved once, by the submission or by the
\* timer, and a later timer fire or submission resolves nothing.
C11_TokenResolvesAtMostOnce ==
    [][/\ \A t \in Tasks :
            ret'[t].op = "vault_add" =>
                /\ toolCalls[t].op = "vault_add" /\ toolCalls[t].pc = "waiting"
                /\ toolCalls[t].token = ret'[t].token
                /\ ret'[t].token \in pendingCallbacks
                /\ ret'[t].token \notin pendingCallbacks'
                /\ \A u \in Tasks \ {t} : ret'[u].op # "vault_add"
       /\ \A tk \in pendingCallbacks' \ pendingCallbacks :
            \E t \in Tasks : /\ toolCalls'[t].pc = "waiting" /\ toolCalls'[t].token = tk
                              /\ toolCalls[t].pc # "waiting"
       /\ \A tk \in pendingCallbacks \ pendingCallbacks' :
            \E t \in Tasks : ret'[t].op = "vault_add" /\ ret'[t].token = tk]_vars

\* A second submission carries a token that a first one resolved, and its
\* handler has reached the notification.
C11_Witness ==
    \E n \in notified, u \in Tasks :
        /\ toolCalls[u].op = "post" /\ toolCalls[u].pc = "logging"
        /\ toolCalls[u].body.token = n[1]
        /\ n[1] \notin pendingCallbacks

\* ----------------------------------------------------------------- C12
\* C12: a request that arrived with a pending token resolves the call waiting
\* on it with success: no call is timed out while a request carrying its
\* token is being handled.
C12_SubmissionBeforeTimeoutSucceeds ==
    \A t \in Tasks :
        (ret[t].op = "vault_add" /\ ret[t].value.status = <<"timeout">>) =>
            ~\E u \in Tasks : /\ toolCalls[u].op = "post"
                               /\ toolCalls[u].body.token = ret[t].token

\* ----------------------------------------------------------------- C13
\* C13: a pending token is resolved in the end, and the call waiting on it
\* returns the timeout outcome unless a request carrying the token resolved it.
C13_TokenEventuallyResolved ==
    \A tk \in AllTokens :
        (tk \in pendingCallbacks) ~>
            /\ tk \notin pendingCallbacks
            /\ \E t \in Tasks :
                  /\ ret[t].op = "vault_add" /\ ret[t].token = tk
                  /\ \/ ret[t].value.status = <<"timeout">>
                     \/ \E n \in notified : n[1] = tk

\* A call timed out and no request carrying its token was processed.
C13_Witness ==
    \E t \in Tasks :
        /\ ret[t].op = "vault_add" /\ ret[t].value.status = <<"timeout">>
        /\ \A n \in notified : n[1] # ret[t].token
        /\ ret[t].token \notin pendingCallbacks \cup timers

\* ----------------------------------------------------------------- C14
\* C14: when an add call returns success with a site id, the file of the
\* store holds a credential of that site and the audit log holds a
\* credential.created entry for it.
C14_ResolvedAfterPersistAndAudit ==
    \A t \in Tasks :
        (ret[t].op = "vault_add" /\ ret[t].value.status = <<"success">>) =>
            /\ \E i \in 1..Len(credentialsFile) :
                  credentialsFile[i].siteId = ret[t].value.site_id
            /\ \E i \in 1..Len(credentials) :
                  credentials[i].siteId = ret[t].value.site_id
            /\ \E j \in 1..Len(auditFile) :
                  /\ Get(getEntries(auditFile)[j], "action") = <<"credential.created">>
                  /\ Get(getEntries(auditFile)[j], "credentialId") = ret[t].value.site_id

C14_Witness ==
    \E t \in Tasks :
        /\ ret[t].op = "vault_add" /\ ret[t].value.status = <<"success">>
        /\ <<ret[t].token, ret[t].value.site_id>> \in notified
        /\ Len(auditFile) > 0 /\ Len(credentialsFile) > 0

\* ----------------------------------------------------------------- C15
\* C15: a get of the site id made right after an add returned gives the
\* payload that was added.
C15_GetAfterAddReturnsPayload ==
    [][\A t \in Tasks :
          (/\ ret[t].op = "store_add"
           /\ ret'[t].op = "get"
           /\ ret'[t].value = getCredential(credentials', ret[t].value.siteId,
                                            getMasterKey(envKey)))
          => /\ ret'[t].value.kind = "found"
             /\ ret'[t].value.data = ret[t].value.arg]_vars

\* ----------------------------------------------------------------- C16
\* C16: an add, then a remove of the same site id, then a get of it: the
\* remove returned true and the get returns null.
C16_GetAfterAddRemoveIsNull ==
    [][\A t \in Tasks :
          (/\ ret[t].op = "store_remove"
           /\ ret[t].value.prev.op = "store_add"
           /\ ret[t].value.prev.siteId = ret[t].value.siteId
           /\ ret'[t].op = "get"
           /\ ret'[t].value = getCredential(credentials', ret[t].value.siteId,
                                            getMasterKey(envKey)))
          => /\ ret[t].value.result = TRUE
             /\ ret'[t].value.kind = "null"]_vars

\* ----------------------------------------------------------------- C17
\* C17: no two credentials of the vector have the same site id.
C17_SiteIdUnique ==
    \A i, j \in 1..Len(credentials) :
        i # j => credentials[i].siteId # credentials[j].siteId

\* ----------------------------------------------------------------- C18
\* C18: a toggleActive that returns true changes, of the whole vector, only
\* active and updatedAt of the credential found under the site id, and active
\* is what was asked; so toggleActive(x, true) right after toggleActive(x,
\* false) finds x inactive and leaves it active, with id, siteId, serviceType,
\* loginUrl, selectors, createdAt and encryptedData as they were, and every
\* other credential as it was.
C18_ToggleOffOnFrame ==
    \A t \in Tasks :
        (ret[t].op = "store_toggle" /\ ret[t].value.result = TRUE) =>
            LET was == ret[t].value.before
                idx == FindIndex(was, ret[t].value.siteId)
                prev == ret[t].value.prev
            IN  /\ Len(credentials) = Len(was)
                /\ \A i \in 1..Len(was) :
                      IF i = idx
                      THEN /\ credentials[i].active = ret[t].value.arg
                           /\ DOMAIN credentials[i] = DOMAIN was[i]
                           /\ \A k \in DOMAIN was[i] \ {"active", "updatedAt"} :
                                 credentials[i][k] = was[i][k]
                      ELSE credentials[i] = was[i]
                /\ (/\ prev.op = "store_toggle" /\ prev.siteId = ret[t].value.siteId
                    /\ prev.result = TRUE /\ prev.arg = FALSE
                    /\ ret[t].value.arg = TRUE)
                   => was[idx].active = FALSE /\ credentials[idx].active = TRUE

\* toggleActive(x, true) returned true right after toggleActive(x, false)
\* did, time passed since x was written, and another credential is there.
C18_Witness ==
    \E t \in Tasks :
        /\ ret[t].op = "store_toggle"
        /\ ret[t].value.result = TRUE /\ ret[t].value.arg = TRUE
        /\ ret[t].value.prev.op = "store_toggle"
        /\ ret[t].value.prev.siteId = ret[t].value.siteId
        /\ ret[t].value.prev.result = TRUE /\ ret[t].value.prev.arg = FALSE
        /\ Len(credentials) = 2
        /\ LET idx == FindIndex(credentials, ret[t].value.siteId)
           IN  /\ credentials[idx].updatedAt # credentials[idx].createdAt
               /\ credentials[idx].active

C20_FileEqualsVector ==
    (\A u \in Tasks : storeCalls[u].pc = "idle") =>
        LET loaded == JSONParseCredentials(credentialsFile)
            key == getMasterKey(envKey)
        IN  /\ credentialsFile = JSONStringifyCredentials(credentials)
            /\ Len(loaded) = Len(credentials)
            /\ \A i \in 1..Len(loaded) :
                  \A k \in StoredKeys \ {"encryptedData"} :
                      Field(listCredentials(loaded)[i], k)
                          = Field(listCredentials(credentials)[i], k)
            /\ \A s \in SiteIds :
                  /\ getCredential(loaded, s, key).kind = getCredential(credentials, s, key).kind
                  /\ getCredential(credentials, s, key).kind = "found" =>
                        getCredential(loaded, s, key).data
                            = getCredential(credentials, s, key).data

\* A mutating call has just returned; the vector holds a credential whose
\* undefined loginUrl is not in the file.
C20_Witness ==
    \E t \in Tasks :
        /\ ret[t].op \in {"store_add", "store_remove", "store_toggle"}
        /\ \A u \in Tasks : storeCalls[u].pc = "idle"
        /\ credentials # ret[t].value.before
        /\ \E i \in 1..Len(credentials) :
              /\ credentials[i].loginUrl = Undefined
              /\ "loginUrl" \notin DOMAIN credentialsFile[i]

\* ----------------------------------------------------------------- C21
\* C21: once every overlapping add, remove and toggle call has returned, the
\* file is the text of the vector.
C21_OverlappingCallsLeaveFileEqual ==
    (\A t \in Tasks : toolCalls[t].op = "none" /\ storeCalls[t].pc = "idle") =>
        credentialsFile = JSONStringifyCredentials(credentials)

C23_CacheCoherent ==
    \A t \in Tasks :
        ret[t].op = "getMasterKey" =>
            LET vaultDir == OrElse(ret[t].value.dataDir, <<"~/.vault-mcp">>)
                was == {f[2] : f \in {g \in ret[t].value.keyFiles : g[1] = vaultDir}}
            IN  IF Truthy(envKey)
                THEN ret[t].value.key = ScryptSync(envKey, KEY_LENGTH)
                ELSE IF was # {}
                THEN ret[t].value.key \in was
                ELSE <<vaultDir, ret[t].value.key>> \in keychain.keyFiles

\* ----------------------------------------------------------------- C24
\* C24: init() does not return normally from a credentials.json that is not
\* valid JSON, and leaves that file as it is.
C24_MalformedFileIsFatal ==
    /\ \A t \in Tasks : ret[t].op = "store_init" => ret[t].value.beforeFile # << [file |-> "malformed"] >>
    /\ \A t \in Tasks :
          (toolCalls[t].op = "store_init" /\ toolCalls[t].pc = "saving") =>
              toolCalls[t].beforeFile # << [file |-> "malformed"] >>

\* ----------------------------------------------------------------- C25
\* The credential a site id names opens under the key in use, or there is
\* none.
Opens(siteId) == getCredential(credentials, siteId, getMasterKey(envKey)).kind # "throws"

\* The first precondition of vault_login a site id fails, in the order exists,
\* active, web_login, login URL and selectors set: the reason recorded and the
\* message returned; no reason when it passes them all.
LoginPrecondition(siteId) ==
    LET idx == FindIndex(credentials, siteId)
    IN  IF idx = 0
        THEN [reason |-> <<"Credential not found">>,
              message |-> <<"Credential not found: ">> \o siteId]
        ELSE IF ~credentials[idx].active
        THEN [reason |-> <<"Credential is inactive">>,
              message |-> <<"Credential is inactive: ">> \o siteId]
        ELSE IF credentials[idx].serviceType # <<"web_login">>
        THEN [reason |-> <<"Not a web_login credential">>,
              message |-> siteId \o <<" is not a web_login credential. Use vault_api_request instead.">>]
        ELSE IF \/ credentials[idx].loginUrl \in {Undefined, <<>>}
                \/ credentials[idx].selectors = Undefined
        THEN [reason |-> <<"Missing login URL or selectors">>,
              message |-> siteId \o <<" is missing loginUrl or selectors configuration">>]
        ELSE [reason |-> <<>>, message |-> <<>>]

\* The step appends to the log one credential.used entry of a site id with a
\* result and details, and nothing else.
AppendsUsed(siteId, result, details) ==
    /\ Len(auditFile') = Len(auditFile) + 1
    /\ SubSeq(auditFile', 1, Len(auditFile)) = auditFile
    /\ LET entry == JSONParse(auditFile'[Len(auditFile')])
       IN  /\ Get(entry, "action") = <<"credential.used">>
           /\ Get(entry, "credentialId") = siteId
           /\ Get(entry, "result") = result
           /\ Get(entry, "details") = details

ApiPrecondition(service) ==
    LET idx == FindIndex(credentials, service)
    IN  IF idx = 0
        THEN [reason |-> <<"Credential not found">>,
              message |-> <<"Credential not found: ">> \o service]
        ELSE IF ~credentials[idx].active
        THEN [reason |-> <<"Credential is inactive">>,
              message |-> <<"Credential is inactive: ">> \o service]
        ELSE IF credentials[idx].serviceType # <<"api_key">>
        THEN [reason |-> <<"Not an api_key credential">>,
              message |-> service \o <<" is not an api_key credential. Use vault_login instead.">>]
        ELSE [reason |-> <<>>, message |-> <<>>]

C27_StoredHeaderWins ==
    \A t \in Tasks :
        (toolCalls[t].op = "vault_api_request" /\ toolCalls[t].pc = "fetch") =>
            LET stored == getCredential(credentials, toolCalls[t].siteId,
                                        getMasterKey(envKey)).data.headers
            IN  \A i \in 1..Len(stored) :
                    Get(toolCalls[t].mergedHeaders, stored[i][1]) = stored[i][2]

\* ----------------------------------------------------------------- C28
\* What vault_login and vault_api_request hand back.
ToolOps == {"vault_login", "vault_api_request"}

\* C28: when a vault_login or vault_api_request call is over and the
\* credential it named does not open under the key in use, the log holds a
\* credential.used entry of that credential with result 'failure'.
C28_DecryptFailureIsLogged ==
    \A t \in Tasks :
        (ret[t].op \in ToolOps /\ ~Opens(ret[t].siteId)) =>
            \E i \in 1..Len(auditFile) :
                /\ Get(JSONParse(auditFile[i]), "action") = <<"credential.used">>
                /\ Get(JSONParse(auditFile[i]), "credentialId") = ret[t].siteId
                /\ Get(JSONParse(auditFile[i]), "result") = <<"failure">>

\* ----------------------------------------------------------------- C29
\* C29: what a vault_login or vault_api_request call ends with is an outcome
\* with a status, 'success' or 'failure', never an error thrown.
C29_AlwaysStructuredOutcome ==
    \A t \in Tasks :
        ret[t].op \in ToolOps =>
            /\ "status" \in DOMAIN ret[t].value
            /\ ret[t].value.status \in {<<"success">>, <<"failure">>}

\* ----------------------------------------------------------------- C30
\* C30: a vault_login or vault_api_request call appends nothing while it
\* runs; the step on which it returns an outcome has put exactly one more
\* entry in the log, a credential.used entry of the credential the call named,
\* whose result is the status returned.
C30_OneEntryBeforeReturn ==
    /\ [][\A t \in Tasks :
            toolCalls'[t].op \in ToolOps => auditFile' = auditFile]_vars
    /\ [][\A t \in Tasks :
            (ret'[t].op \in ToolOps /\ "status" \in DOMAIN ret'[t].value) =>
                /\ toolCalls[t].op = ret'[t].op
                /\ Len(auditFile') = Len(auditFile) + 1
                /\ SubSeq(auditFile', 1, Len(auditFile)) = auditFile
                /\ LET entry == JSONParse(auditFile'[Len(auditFile')])
                   IN  /\ Get(entry, "action") = <<"credential.used">>
                       /\ Get(entry, "credentialId") = ret'[t].siteId
                       /\ Get(entry, "result") = ret'[t].value.status
                       /\ ret'[t].value.status \in {<<"success">>, <<"failure">>}]_vars

\* A login has returned success, its entry in the log.
C30_Witness ==
    \E t \in Tasks :
        /\ ret[t].op = "vault_login"
        /\ "status" \in DOMAIN ret[t].value
        /\ ret[t].value.status = <<"success">>
        /\ Len(auditFile) = 1
        /\ Get(JSONParse(auditFile[1]), "result") = <<"success">>

\* ----------------------------------------------------------------- C31
\* C31: every credential of the store has service type web_login or api_key,
\* and its payload has the properties of that type: email and password for a
\* web login, apiKey and headers for an API key.
C31_TypeAgreesWithPayload ==
    \A i \in 1..Len(credentials) :
        LET data == decrypt(credentials[i].encryptedData, credentials[i].encryptedData.key)
        IN  /\ credentials[i].serviceType \in {<<"web_login">>, <<"api_key">>}
            /\ credentials[i].serviceType = <<"web_login">> =>
                    DOMAIN data = {"email", "password"}
            /\ credentials[i].serviceType = <<"api_key">> =>
                    DOMAIN data = {"apiKey", "headers"}

\* ----------------------------------------------------------------- C32
\* C32: a web login of the store has both a login URL and selectors; an API
\* key has neither.
C32_UrlAndSelectorsIffWebLogin ==
    \A i \in 1..Len(credentials) :
        /\ credentials[i].serviceType = <<"web_login">> =>
                (credentials[i].loginUrl # Undefined /\ credentials[i].selectors # Undefined)
        /\ credentials[i].serviceType = <<"api_key">> =>
                (credentials[i].loginUrl = Undefined /\ credentials[i].selectors = Undefined)

\* ----------------------------------------------------------------- C33
\* The store with every sealed payload taken out.
Blanked(creds) ==
    [i \in 1..Len(creds) |->
        [creds[i] EXCEPT !.encryptedData = [iv |-> <<>>, key |-> <<>>, plaintext |-> <<>>]]]

\* A step of vault_list or vault_status by task t: the call of either, or
\* the return of vault_status from its read of the log.
ReadOnlyStep(t) ==
    \/ ret'[t].op \in {"vault_list", "vault_status"}
    \/ toolCalls[t].op = "none" /\ toolCalls'[t].op = "vault_status"

\* C33: a step of vault_list or vault_status leaves the credential vector,
\* the credentials file and the audit log as they were and starts no store or
\* log call; what vault_list returns is what it returns on the store without
\* the sealed payloads, and the credential vault_status reports on is held
\* without its sealed payload.
C33_ListAndStatusReadOnly ==
    /\ [][\A t \in Tasks :
            ReadOnlyStep(t) =>
                /\ credentials' = credentials
                /\ credentialsFile' = credentialsFile
                /\ auditFile' = auditFile
                /\ logCalls' = logCalls
                /\ storeCalls' = storeCalls
                /\ ret'[t].op = "vault_list" =>
                        ret'[t].value = vaultList(Blanked(credentials))]_vars
    /\ [](\A t \in Tasks :
            toolCalls[t].op = "vault_status" =>
                "encryptedData" \notin DOMAIN toolCalls[t].cred)

\* vault_list has returned a credential of a store whose log has entries.
C33_Witness ==
    \E t \in Tasks :
        /\ ret[t].op = "vault_list"
        /\ Len(ret[t].value.credentials) > 0
        /\ Len(auditFile) > 0

\* ----------------------------------------------------------------- C34
\* The lines of the log that are entries of a site id, by position.
LinesOf(siteId) ==
    {i \in 1..Len(auditFile) : Get(JSONParse(auditFile[i]), "credentialId") = siteId}

\* The k-th smallest of a set of positions.
Nth(S, k) == CHOOSE i \in S : Cardinality({j \in S : j < i}) = k - 1

C35_FreshIv ==
    /\ \A i, j \in 1..Len(credentials) :
          i # j => /\ credentials[i].encryptedData.iv # credentials[j].encryptedData.iv
                   /\ credentials[i].encryptedData # credentials[j].encryptedData
    /\ credentialsFile \notin Unreadable =>
          \A i, j \in 1..Len(credentialsFile) :
              i # j => credentialsFile[i].encryptedData.iv # credentialsFile[j].encryptedData.iv

\* Two credentials sealed from the same plaintext under the same key are in
\* the store and in the file.
C35_Witness ==
    /\ credentialsFile = JSONStringifyCredentials(credentials)
    /\ \E i, j \in 1..Len(credentials) :
          /\ i # j
          /\ credentials[i].encryptedData.plaintext = credentials[j].encryptedData.plaintext
          /\ credentials[i].encryptedData.key = credentials[j].encryptedData.key

\* ----------------------------------------------------------------- C36
\* C36: the pending map holds exactly the tokens of the calls that wait on
\* onCredentialAdded; the token of a call that was just resolved, by a
\* submission or by its timer, and every token notified is not in it.
C36_PendingIsUnresolved ==
    /\ pendingCallbacks = {toolCalls[t].token :
                              t \in {u \in Tasks : /\ toolCalls[u].op = "vault_add"
                                                   /\ toolCalls[u].pc = "waiting"}}
    /\ \A t \in Tasks : ret[t].op = "vault_add" => ret[t].token \notin pendingCallbacks
    /\ \A n \in notified : n[1] \notin pendingCallbacks

\* A call has just been resolved by a submission that carried its token.
C36_Witness ==
    \E t \in Tasks :
        /\ ret[t].op = "vault_add"
        /\ ret[t].value.status = <<"success">>
        /\ \E n \in notified : n[1] = ret[t].token
        /\ ret[t].token \notin pendingCallbacks

\* ----------------------------------------------------------------- C37
\* The secrets of a list that are not empty, in order.
NonEmpty(secrets) == SelectSeq(secrets, LAMBDA x : x # <<>>)

\* C37: a sanitizer handed a list with empty secrets in it does what it does
\* on the list without them; a message in which no non-empty secret of the list
\* occurs comes back as it was, from vaultApiRequest's sanitizer and from
\* the bridge's.
C37_EmptySecretsSkipped ==
    \A t \in Tasks :
        ret[t].op = "sanitize" =>
            LET message == ret[t].value.message
                live == NonEmpty(ret[t].value.secrets)
            IN  /\ ret[t].value.api = SanitizeAll(message, live)
                /\ ret[t].value.bridge.kind = "hangs" <=> sanitizeHangs(message, live)
                /\ ret[t].value.bridge.kind = "returns" =>
                        ret[t].value.bridge.text = sanitize(message, live)
                /\ (\A i \in 1..Len(live) : ~Includes(message, live[i])) =>
                        /\ ret[t].value.api = message
                        /\ ret[t].value.bridge = [kind |-> "returns", text |-> message]

\* A message that holds no non-empty secret went through with an empty
\* secret and a non-empty one in the list.
C37_Witness ==
    \E t \in Tasks :
        /\ ret[t].op = "sanitize"
        /\ ret[t].value.message # <<>>
        /\ ret[t].value.secrets[1] = <<>>
        /\ ret[t].value.secrets[2] # <<>>
        /\ ~Includes(ret[t].value.message, ret[t].value.secrets[2])
        /\ ret[t].value.api = ret[t].value.message

\* ----------------------------------------------------------------- C38
\* The step hands the secret of a site id to the browser adapter or puts it
\* in a request: a call of task t passes its checks.
UsesSecret(t) ==
    /\ toolCalls[t].op = "none"
    /\ toolCalls'[t].op \in ToolOps
    /\ toolCalls'[t].pc \in {"browser", "fetch"}

\* The store call of site id x that returned true on the step before this
\* one, with nothing in between.
JustCompleted(op, x) ==
    \E u \in Tasks :
        /\ ret[u].op = op
        /\ ret[u].value.siteId = x
        /\ ret[u].value.result = TRUE

\* C38: a call that hands a secret on found, at its checks, a credential of
\* the site id that is active and of the type of the verb; and the call that
\* comes next after removeCredential(x) or toggleActive(x, false) has
\* returned true does not hand on the secret of x.
C38_SecretOnlyWhenEnabled ==
    [][\A t \in Tasks :
          UsesSecret(t) =>
              LET x == toolCalls'[t].siteId
                  idx == FindIndex(credentials, x)
              IN  /\ idx # 0
                  /\ credentials[idx].active
                  /\ credentials[idx].serviceType =
                        (IF toolCalls'[t].op = "vault_login" THEN <<"web_login">>
                         ELSE <<"api_key">>)
                  /\ ~JustCompleted("store_remove", x)
                  /\ ~(JustCompleted("store_toggle", x)
                        /\ \E u \in Tasks : ret[u].op = "store_toggle"
                                              /\ ret[u].value.arg = FALSE)]_vars

\* ----------------------------------------------------------------- C39
\* C39: the bridge's sanitizer returns, whatever the message and the
\* secrets.
C39_SanitizeTerminates ==
    \A t \in Tasks :
        ret[t].op = "sanitize" => ret[t].value.bridge.kind = "returns"

\* ------------------------------------------------------------------ C5
ChainLinked(file) ==
    \A i \in 1..Len(file) :
        Get(JSONParse(file[i]), "prevHash")
            = (IF i = 1 THEN Genesis ELSE Get(JSONParse(file[i - 1]), "hash"))

\* C5: after any sequence of log calls on an empty log, each completing before
\* the next starts, the first entry's prevHash is 'genesis' and every later
\* entry's prevHash is the hash of the entry before it.
C5_ChainMonotonic == ChainLinked(auditFile)

C5_Witness ==
    /\ Len(auditFile) >= 2 /\ Quiet
    /\ Get(JSONParse(auditFile[1]), "prevHash") = Genesis
    /\ Get(JSONParse(auditFile[2]), "prevHash") = Get(JSONParse(auditFile[1]), "hash")
    /\ Get(JSONParse(auditFile[2]), "prevHash") # Genesis

\* C6: for any interleaving of log calls in flight at the same time, the
\* resulting log is still chained (entries[n].prevHash = entries[n-1].hash)
\* and verifyChain reports valid=true.
C6_AtomicAppend ==
    /\ ChainLinked(auditFile)
    /\ verifyResult.called => verifyResult.valid

\* C7: changing one field of the on-disk entry k, all other entries left as
\* written, makes verifyChain report valid=false with brokenAt = k.
C7_TamperDetectedAtIndex ==
    (tamper.kind = "field" /\ verifyResult.called)
        => (~verifyResult.valid /\ verifyResult.brokenAt = tamper.idx)

C7_Witness ==
    /\ tamper.kind = "field" /\ tamper.idx = 0
    /\ Len(auditFile) = 2
    /\ verifyResult.called /\ ~verifyResult.valid /\ verifyResult.brokenAt = 0
    /\ Get(JSONParse(auditFile[1]), "result") = <<"failure">>

\* C8: any alteration of the on-disk sequence (a modified entry, a deleted
\* entry including a truncated tail, a reordering) makes verifyChain report
\* valid=false.
C8_AnyAlterationDetected ==
    (tamper.kind # "none" /\ verifyResult.called) => ~verifyResult.valid

\* C9: on a log produced only by completed sequential log calls, with any
\* combination of botId and details, verifyChain reports valid=true and
\* totalEntries = the number of appended entries (0 on the empty log).
C9_UntamperedVerifies ==
    verifyResult.called
        => /\ verifyResult.valid
           /\ verifyResult.brokenAt = -1
           /\ verifyResult.totalEntries = Len(auditFile)

C9_Witness ==
    /\ verifyResult.called /\ verifyResult.valid /\ verifyResult.totalEntries = 2
    /\ \E i \in 1..2 : /\ HasKey(JSONParse(auditFile[i]), "botId")
                        /\ HasKey(JSONParse(auditFile[i]), "details")
    /\ \E i \in 1..2 : /\ ~HasKey(JSONParse(auditFile[i]), "botId")
                        /\ ~HasKey(JSONParse(auditFile[i]), "details")

\* 'evt_' followed by k written with three decimal digits (k < 1000).
EventIdOfIndex(k) ==
    <<"evt_", DigitChars[((k \div 100) % 10) + 1], DigitChars[((k \div 10) % 10) + 1],
      DigitChars[(k % 10) + 1]>>

\* C10: in every reachable state of the audit log the entry at 1-based
\* position k carries the event id built from k, so the event ids are
\* pairwise distinct and increasing in file order.
C10_EventIdIsIndex ==
    \A k \in 1..Len(auditFile) :
        Get(JSONParse(auditFile[k]), "eventId") = EventIdOfIndex(k)

\* ----------------------------------------------------------------- C40
\* C40: with the variable unset, the key a getMasterKey call returns is the
\* content of the key file of its directory when it returns, and the same
\* key that file held before the call returned, if it held one: every
\* caller gets the key that stays in the file.
C40_MasterKeyStable ==
    [][\A t \in Tasks :
          (ret'[t].op = "getMasterKey" /\ ~Truthy(envKey)) =>
              LET vaultDir == OrElse(ret'[t].value.dataDir, <<"~/.vault-mcp">>)
              IN  /\ <<vaultDir, ret'[t].value.key>> \in keychain'.keyFiles
                  /\ \A f \in keychain.keyFiles :
                        f[1] = vaultDir => f[2] = ret'[t].value.key]_vars

====
